---- MODULE Spec2Model ----
(***************************************************************************)
(* Model of the three MCP servers of MCP/mcppractical (Google services,    *)
(* MongoDB, PostgreSQL): the call_tool dispatchers, the backing functions  *)
(* they route to, and the external stores those functions act on.          *)
(*                                                                         *)
(* Each server is a separate process (its own `asyncio.run(main())`), so a *)
(* behaviour follows one server process, chosen in Init.                   *)
(*                                                                         *)
(* Python values.  A string-typed Python value is a TLA+ string; Python    *)
(* None among such values is the constant None.  A value stored in a       *)
(* MongoDB document, or in a result payload, is a record [t, v]: t is its  *)
(* type ("str" plain string, "oid" bson ObjectId, "$oid" the Extended JSON *)
(* mapping {"$oid": v}) and v its text.  A dict is a function from its     *)
(* keys; a key that is not present is not in its DOMAIN.                   *)
(***************************************************************************)
EXTENDS Integers, Sequences, FiniteSets, TLC

VARIABLES
    server,      \* which of the three server processes this behaviour follows
    up,          \* the server module was imported without an exception
    configFile,  \* the content of config.json on disk
    config,      \* mcp_server.py's module-level `config`, loaded at start
    coll,        \* MongoDB: the documents of collection d.c, in insertion order
    nextOid,     \* MongoDB: index of the next ObjectId the driver generates
    fresh,       \* MongoDB: documents inserted since the last update or delete
    pg,          \* PostgreSQL: committed content of the database
    goog,        \* Google: content of the sheet, the mailbox and the calendar
    listed,      \* what the first list_tools call of this process returned
    last,        \* the last call_tool invocation and what it did
    agent,       \* agent.py: the run of make_automatic_decisions
    api          \* api_server.py: MODELS_CACHE, the model files and the requests

vars == <<server, up, configFile, config, coll, nextOid, fresh, pg, goog, listed, last, agent, api>>

\* the variables of the three MCP servers
mcpVars == <<server, up, configFile, config, coll, nextOid, fresh, pg, goog, listed, last>>

\* the agent and the inference API server are separate programs; a behaviour
\* of the MCP servers does not run them
AgentOff == [pc |-> "off"]
ApiOff == [pc |-> "off"]

(***************************************************************************)
(* Bounds                                                                  *)
(***************************************************************************)
MaxDocs == 2     \* documents in the collection
MaxOids == 2     \* ObjectIds the driver generates in one behaviour
MaxRows == 2     \* rows of the PostgreSQL table
MaxSheet == 1    \* rows of the spreadsheet
MaxSent == 1     \* messages sent
MaxEvents == 1   \* calendar events created in one behaviour

(***************************************************************************)
(* Python helpers                                                          *)
(***************************************************************************)
None == "<None>"

Get(m, k) == IF k \in DOMAIN m THEN m[k] ELSE None
GetD(m, k, d) == IF k \in DOMAIN m THEN m[k] ELSE d
Restrict(m, K) == [k \in K |-> m[k]]
Range(s) == {s[i] : i \in DOMAIN s}

Str(s) == [t |-> "str", v |-> s]
Oid(h) == [t |-> "oid", v |-> h]

\* An exception that is propagating, or a value that was returned; w is the
\* state of the external world after the effects that happened before it.
Raise(m, w) == [kind |-> "raise", msg |-> m, ret |-> [raised |-> TRUE], w |-> w]
Return(r, w) == [kind |-> "return", msg |-> "", ret |-> r, w |-> w]

Failure(m) == [success |-> FALSE, error |-> m]

\* One call into a client library is appended to the trace of the invocation;
\* ok is FALSE for a call that raised.
Ev(w, e) == [w EXCEPT !.trace = Append(@, [k |-> "ext", n |-> e, ok |-> TRUE])]
EvFail(w, e) == [w EXCEPT !.trace = Append(@, [k |-> "ext", n |-> e, ok |-> FALSE])]
\* A connection is opened with the connection string `to`.
Connect(w, e, to, ok) ==
    [w EXCEPT !.trace = Append(@, [k |-> "ext", n |-> e, ok |-> ok, to |-> to])]
\* A backing function is entered: from the dispatcher ("call") or from another
\* backing function ("nested").
Call(w, fn) == [w EXCEPT !.trace = Append(@, [k |-> "call", n |-> fn, ok |-> TRUE])]
Nested(w, fn) == [w EXCEPT !.trace = Append(@, [k |-> "nested", n |-> fn, ok |-> TRUE])]

(***************************************************************************)
(* Faults of the external systems.  A plan names the external steps that   *)
(* fail during one invocation and the text str() gives for the exception.  *)
(* The client libraries are not part of the repository: the text of their  *)
(* exceptions is arbitrary, and str() of an exception built without        *)
(* arguments is the empty string.                                          *)
(***************************************************************************)
ExcMsgs == {"", "backend failure"}

NoFault == [fail |-> {}, msg |-> "backend failure"]

FaultPlans ==
    {NoFault} \cup
    [fail : {{"connect"}, {"ping"}, {"op"}, {"close"}, {"op", "close"},
             {"commit"}, {"op", "rollback"}, {"op2"}, {"auth"}},
     msg : ExcMsgs]

(***************************************************************************)
(* json.loads on the texts the invocations carry                           *)
(***************************************************************************)
JsonOk(v) == [ok |-> TRUE, val |-> v, msg |-> ""]
JsonErr == [ok |-> FALSE, val |-> <<>>, msg |-> "Expecting value: line 1 column 1 (char 0)"]

JsonLoads(txt) ==
    CASE txt = "{}" -> JsonOk(<<>>)
      [] txt = "{\"name\": \"a\"}" -> JsonOk([name |-> Str("a")])
      [] txt = "{\"name\": \"b\"}" -> JsonOk([name |-> Str("b")])
      [] txt = "{\"_id\": \"h1\"}" -> JsonOk([_id |-> Str("h1")])
      [] txt = "{\"_id\": \"zz\"}" -> JsonOk([_id |-> Str("zz")])
      [] txt = "{\"$set\": {\"name\": \"b\"}}" -> JsonOk("$set" :> [name |-> Str("b")])
      [] txt = "[{\"name\": \"a\"}, {\"name\": \"b\"}]" -> JsonOk(<<[name |-> Str("a")], [name |-> Str("b")]>>)
      [] txt = "[]" -> JsonOk(<<>>)
      [] txt = "{\"name\": 1}" -> JsonOk([name |-> 1])
      [] txt = "[{\"$match\": {\"name\": \"a\"}}]" -> JsonOk(<<"$match" :> [name |-> Str("a")]>>)
      [] OTHER -> JsonErr

(***************************************************************************)
(* MongoDB: the driver (pymongo, bson), as far as the backing functions    *)
(* use it.  w = [coll, nextOid, trace].                                    *)
(***************************************************************************)
HexOf == <<"h1", "h2", "h3", "h4", "h5", "h6">>
ValidHex == Range(HexOf)

\* bson.ObjectId(x)
ObjectId(x) ==
    IF x.t = "oid" THEN [ok |-> TRUE, val |-> x, msg |-> ""]
    ELSE IF x.v \in ValidHex THEN [ok |-> TRUE, val |-> Oid(x.v), msg |-> ""]
    ELSE [ok |-> FALSE, val |-> x,
          msg |-> "'" \o x.v \o "' is not a valid ObjectId, it must be a 12-byte input or a 24-character hex string"]

\* str(x) of a document identifier
PyStr(x) == Str(x.v)

\* json.loads(bson.json_util.dumps(documents)): Extended JSON, an ObjectId
\* becomes the mapping {"$oid": <hex>}
ExtJsonValue(x) == IF x.t = "oid" THEN [t |-> "$oid", v |-> x.v] ELSE x
ExtJsonDoc(d) == [k \in DOMAIN d |-> ExtJsonValue(d[k])]
ExtJson(docs) == [i \in DOMAIN docs |-> ExtJsonDoc(docs[i])]

\* the server's match of a document against an equality filter
Matches(d, q) == \A k \in DOMAIN q : k \in DOMAIN d /\ d[k] = q[k]
Matching(c, q) == SelectSeq(c, LAMBDA d : Matches(d, q))
FirstMatch(c, q) == CHOOSE i \in DOMAIN c : Matches(c[i], q) /\ \A j \in 1..(i - 1) : ~Matches(c[j], q)

NameRank(d) == IF "name" \notin DOMAIN d THEN 0 ELSE IF d.name.v = "a" THEN 1 ELSE 2

RECURSIVE SortByName(_)
SortByName(s) ==
    IF s = <<>> THEN <<>>
    ELSE LET i == CHOOSE i \in DOMAIN s : \A j \in DOMAIN s :
                      NameRank(s[i]) < NameRank(s[j]) \/ (NameRank(s[i]) = NameRank(s[j]) /\ i <= j)
         IN <<s[i]>> \o SortByName(SubSeq(s, 1, i - 1) \o SubSeq(s, i + 1, Len(s)))

Skip(s, n) == SubSeq(s, n + 1, Len(s))
Limit(s, n) == IF n = 0 \/ n >= Len(s) THEN s ELSE SubSeq(s, 1, n)

\* the document put in the place of d (a replacement, not an update of fields)
ReplaceWhole(d, set) == set

\* $set applied to a document
ApplySet(d, set) == [k \in DOMAIN d \cup DOMAIN set |-> IF k \in DOMAIN set THEN set[k] ELSE d[k]]

\* the connection string of the configuration loaded when the module was imported
UriAtStart ==
    IF config.kind = "dict" /\ "mongodb" \in DOMAIN config.val /\ "uri" \in DOMAIN config.val["mongodb"]
    THEN config.val["mongodb"]["uri"] ELSE ""

\* a connection opened with the string of the module-level configuration
get_connection_at_start(w, mongo_uri, f) ==
    IF "connect" \in f.fail
    THEN Raise("Connection error: " \o f.msg, Connect(w, "MongoClient", UriAtStart, FALSE))
    ELSE IF "ping" \in f.fail
    THEN Raise("Connection error: " \o f.msg, EvFail(Connect(w, "MongoClient", UriAtStart, TRUE), "ping"))
    ELSE Return(TRUE, Ev(Connect(w, "MongoClient", UriAtStart, TRUE), "ping"))

get_connection(w, mongo_uri, f) ==
    IF "connect" \in f.fail
    THEN Raise("Connection error: " \o f.msg, Connect(w, "MongoClient", mongo_uri, FALSE))
    ELSE IF "ping" \in f.fail
    THEN Raise("Connection error: " \o f.msg, EvFail(Connect(w, "MongoClient", mongo_uri, TRUE), "ping"))
    ELSE Return(TRUE, Ev(Connect(w, "MongoClient", mongo_uri, TRUE), "ping"))

\* client.close()
ClientClose(w, f) ==
    IF "close" \in f.fail THEN Raise(f.msg, EvFail(w, "close")) ELSE Return(TRUE, Ev(w, "close"))

\* client[database_name][collection_name]
SelectCollection(w, database_name, collection_name) ==
    IF database_name = None \/ collection_name = None
    THEN Raise("name must be an instance of str", w)
    ELSE Return(TRUE, w)

\* client = None; try: client = get_connection(..); <Body>
\* except Exception as e: if client: client.close(); return {success: False, error: str(e)}
\* c is the outcome of get_connection, b that of <Body> on the connection
MongoTry(c, f, b) ==
    IF c.kind = "raise" THEN Return(Failure(c.msg), c.w)
    ELSE IF b.kind = "return" THEN b
    ELSE LET x == ClientClose(b.w, f) IN
         IF x.kind = "raise" THEN x ELSE Return(Failure(b.msg), x.w)

\* try: client = get_connection(..); <Body>  except Exception as e: return {...}
MongoTryNoClose(c, b) ==
    IF c.kind = "raise" THEN Return(Failure(c.msg), c.w)
    ELSE IF b.kind = "return" THEN b ELSE Return(Failure(b.msg), b.w)

\* <data request>; client.close(); return <result>
MongoFinish(w, f, op, result, coll2, oid2) ==
    IF "op" \in f.fail THEN Raise(f.msg, EvFail(w, op))
    ELSE LET x == ClientClose([Ev(w, op) EXCEPT !.coll = coll2, !.nextOid = oid2], f) IN
         IF x.kind = "raise" THEN x ELSE Return(result, x.w)

list_databases(w0, mongo_uri, f) ==
    LET c == get_connection(Call(w0, "list_databases"), mongo_uri, f)
        w == c.w
    IN  MongoTryNoClose(c,
        LET databases == IF w.coll = <<>> THEN <<"admin", "local">> ELSE <<"admin", "d", "local">> IN
        MongoFinish(w, f, "list_database_names",
                    [success |-> TRUE, databases |-> databases, count |-> Len(databases)],
                    w.coll, w.nextOid))

list_collections(w0, mongo_uri, database_name, f) ==
    LET c == get_connection(Call(w0, "list_collections"), mongo_uri, f)
        w == c.w
    IN  MongoTryNoClose(c,
        IF database_name = None THEN Raise("name must be an instance of str", w)
        ELSE LET collections == IF w.coll = <<>> THEN <<>> ELSE <<"c">> IN
             MongoFinish(w, f, "list_collection_names",
                         [success |-> TRUE, database |-> database_name,
                          collections |-> collections, count |-> Len(collections)],
                         w.coll, w.nextOid))

\* the parse without the `elif query is None` branch: json.loads(None) raises
ParseQueryNoDefault(query) == IF query = "" THEN JsonOk(<<>>) ELSE JsonLoads(query)

\* if isinstance(query, str): query = json.loads(query) if query else {}
\* elif query is None: query = {}
ParseQuery(query) == IF query = None \/ query = "" THEN JsonOk(<<>>) ELSE JsonLoads(query)

find_documents(w0, mongo_uri, database_name, collection_name, query, limit, skip, sort, f) ==
    LET c == get_connection(Call(w0, "find_documents"), mongo_uri, f)
        w == c.w
    IN  MongoTry(c, f,
        LET s == SelectCollection(w, database_name, collection_name)
            q == ParseQuery(query)
            so == IF sort = None \/ sort = "" THEN JsonOk(<<>>) ELSE JsonLoads(sort)
        IN  IF s.kind = "raise" THEN s
            ELSE IF ~q.ok THEN Raise(q.msg, w)
            ELSE IF ~so.ok THEN Raise(so.msg, w)
            ELSE LET found == Matching(w.coll, q.val)
                     sorted == IF DOMAIN so.val = {} THEN found ELSE SortByName(found)
                     documents == Limit(Skip(sorted, skip), limit)
                     result == ExtJson(documents)
                 IN  MongoFinish(w, f, "find",
                                 [success |-> TRUE, database |-> database_name,
                                  collection |-> collection_name,
                                  documents |-> result, count |-> Len(result)],
                                 w.coll, w.nextOid))

\* count_documents answered through find_documents
count_documents_as_find(w0, mongo_uri, database_name, collection_name, query, f) ==
    find_documents(w0, mongo_uri, database_name, collection_name, query, 100, 0, None, f)

count_documents(w0, mongo_uri, database_name, collection_name, query, f) ==
    LET c == get_connection(Call(w0, "count_documents"), mongo_uri, f)
        w == c.w
    IN  MongoTry(c, f,
        LET s == SelectCollection(w, database_name, collection_name)
            q == ParseQuery(query)
        IN  IF s.kind = "raise" THEN s
            ELSE IF ~q.ok THEN Raise(q.msg, w)
            ELSE MongoFinish(w, f, "count_documents",
                             [success |-> TRUE, database |-> database_name,
                              collection |-> collection_name,
                              count |-> Len(Matching(w.coll, q.val))],
                             w.coll, w.nextOid))

NoneVal == [t |-> "none", v |-> ""]

DocumentTypeError == "document must be an instance of dict, bson.son.SON, bson.raw_bson.RawBSONDocument, or a type that inherits from collections.MutableMapping"

\* identifiers taken from a counter of the process alone, whatever is stored
FreshIdxCounter(w) == w.nextOid

\* the driver adds a newly generated ObjectId to a document that has no _id;
\* a generated ObjectId differs from every identifier already stored
FreshIdx(w) ==
    CHOOSE n \in w.nextOid..Len(HexOf) :
        /\ \A i \in DOMAIN w.coll : w.coll[i]._id # Oid(HexOf[n])
        /\ \A m \in w.nextOid..(n - 1) : \E i \in DOMAIN w.coll : w.coll[i]._id = Oid(HexOf[m])
WithId(d, n) == IF "_id" \in DOMAIN d THEN d ELSE d @@ [_id |-> Oid(HexOf[n])]

insert_document(w0, mongo_uri, database_name, collection_name, document, f) ==
    LET c == get_connection(Call(w0, "insert_document"), mongo_uri, f)
        w == c.w
    IN  MongoTry(c, f,
        LET s == SelectCollection(w, database_name, collection_name)
            p == IF document = None THEN JsonOk(<<>>) ELSE JsonLoads(document)
        IN  IF s.kind = "raise" THEN s
            ELSE IF ~p.ok THEN Raise(p.msg, w)
            ELSE IF document = None THEN Raise(DocumentTypeError, w)
            ELSE LET d == WithId(p.val, FreshIdx(w))
                     n2 == IF "_id" \in DOMAIN p.val THEN w.nextOid ELSE FreshIdx(w) + 1
                 IN  IF \E i \in DOMAIN w.coll : w.coll[i]._id = d._id
                     THEN Raise("E11000 duplicate key error collection: d.c", EvFail(w, "insert_one"))
                     ELSE MongoFinish(w, f, "insert_one",
                                      [success |-> TRUE, database |-> database_name,
                                       collection |-> collection_name,
                                       inserted_id |-> PyStr(d._id),
                                       message |-> "Document inserted successfully"],
                                      Append(w.coll, d), n2))

insert_many_documents(w0, mongo_uri, database_name, collection_name, documents, f) ==
    LET c == get_connection(Call(w0, "insert_many_documents"), mongo_uri, f)
        w == c.w
    IN  MongoTry(c, f,
        LET s == SelectCollection(w, database_name, collection_name)
            p == IF documents = None THEN JsonOk(<<>>) ELSE JsonLoads(documents)
        IN  IF s.kind = "raise" THEN s
            ELSE IF ~p.ok THEN Raise(p.msg, w)
            ELSE IF p.val = <<>> THEN Raise("documents must be a non-empty list", w)
            ELSE LET ds == [i \in DOMAIN p.val |-> WithId(p.val[i], FreshIdx(w) + i - 1)]
                     inserted_ids == [i \in DOMAIN ds |-> PyStr(ds[i]._id)]
                 IN  MongoFinish(w, f, "insert_many",
                                 [success |-> TRUE, database |-> database_name,
                                  collection |-> collection_name,
                                  inserted_ids |-> inserted_ids,
                                  count |-> Len(inserted_ids),
                                  message |-> ToString(Len(inserted_ids)) \o " documents inserted successfully"],
                                 w.coll \o ds, FreshIdx(w) + Len(ds)))

\* if isinstance(filter_query, str): filter_query = json.loads(filter_query)
\* ...
\* if '_id' in filter_query: filter_query['_id'] = ObjectId(filter_query['_id'])
ParseFilter(filter_query) ==
    IF filter_query = None THEN [ok |-> FALSE, val |-> <<>>, msg |-> "argument of type 'NoneType' is not iterable"]
    ELSE LET p == JsonLoads(filter_query) IN
         IF ~p.ok THEN p
         ELSE IF "_id" \notin DOMAIN p.val THEN p
         ELSE LET o == ObjectId(p.val._id) IN
              IF o.ok THEN JsonOk([p.val EXCEPT !._id = o.val]) ELSE [ok |-> FALSE, val |-> <<>>, msg |-> o.msg]

\* if isinstance(update_data, str): update_data = json.loads(update_data)
\* ...
\* if not any(key.startswith('$') for key in update_data.keys()): update_data = {'$set': update_data}
StartsWithDollar(key) == key \in {"$set", "$unset", "$inc", "$push", "$match"}

ParseUpdate(update_data) ==
    IF update_data = None THEN [ok |-> FALSE, val |-> <<>>, msg |-> "'NoneType' object has no attribute 'keys'"]
    ELSE LET p == JsonLoads(update_data) IN
         IF ~p.ok THEN p
         ELSE IF \E key \in DOMAIN p.val : StartsWithDollar(key) THEN p
         ELSE JsonOk("$set" :> p.val)

\* the document an upsert creates from the filter and the $set fields
UpsertDoc(q, set, n) == WithId(ApplySet(q, set), n)

\* filter_query and update_data are parsed in this order, before the '_id' test
UpdateArgs(filter_query, update_data) ==
    LET jf == IF filter_query = None THEN JsonOk(<<>>) ELSE JsonLoads(filter_query)
        ju == IF update_data = None THEN JsonOk(<<>>) ELSE JsonLoads(update_data)
        q == ParseFilter(filter_query)
        u == ParseUpdate(update_data)
    IN  IF ~jf.ok THEN [ok |-> FALSE, msg |-> jf.msg, q |-> <<>>, u |-> <<>>]
        ELSE IF ~ju.ok THEN [ok |-> FALSE, msg |-> ju.msg, q |-> <<>>, u |-> <<>>]
        ELSE IF ~q.ok THEN [ok |-> FALSE, msg |-> q.msg, q |-> <<>>, u |-> <<>>]
        ELSE IF ~u.ok THEN [ok |-> FALSE, msg |-> u.msg, q |-> <<>>, u |-> <<>>]
        ELSE [ok |-> TRUE, msg |-> "", q |-> q.val, u |-> u.val]

UpdateResult(database_name, collection_name, matched, modified, upserted) ==
    [success |-> TRUE, database |-> database_name, collection |-> collection_name,
     matched_count |-> matched, modified_count |-> modified,
     upserted_id |-> upserted,
     message |-> "Update completed. Matched: " \o ToString(matched) \o ", Modified: " \o ToString(modified)]

update_document(w0, mongo_uri, database_name, collection_name, filter_query, update_data, upsert, f) ==
    LET c == get_connection(Call(w0, "update_document"), mongo_uri, f)
        w == c.w
    IN  MongoTry(c, f,
        LET s == SelectCollection(w, database_name, collection_name)
            a == UpdateArgs(filter_query, update_data)
        IN  IF s.kind = "raise" THEN s
            ELSE IF ~a.ok THEN Raise(a.msg, w)
            ELSE LET set == a.u["$set"] IN
                 IF Matching(w.coll, a.q) # <<>>
                 THEN LET i == FirstMatch(w.coll, a.q)
                          d == ApplySet(w.coll[i], set)
                      IN  MongoFinish(w, f, "update_one",
                                      UpdateResult(database_name, collection_name, 1,
                                                   IF d = w.coll[i] THEN 0 ELSE 1, NoneVal),
                                      [w.coll EXCEPT ![i] = d], w.nextOid)
                 ELSE IF upsert
                 THEN LET d == UpsertDoc(a.q, set, FreshIdx(w)) IN
                      MongoFinish(w, f, "update_one",
                                  UpdateResult(database_name, collection_name, 0, 0, PyStr(d._id)),
                                  Append(w.coll, d),
                                  IF "_id" \in DOMAIN a.q THEN w.nextOid ELSE FreshIdx(w) + 1)
                 ELSE MongoFinish(w, f, "update_one",
                                  UpdateResult(database_name, collection_name, 0, 0, NoneVal),
                                  w.coll, w.nextOid))

update_many_documents(w0, mongo_uri, database_name, collection_name, filter_query, update_data, upsert, f) ==
    LET c == get_connection(Call(w0, "update_many_documents"), mongo_uri, f)
        w == c.w
    IN  MongoTry(c, f,
        LET s == SelectCollection(w, database_name, collection_name)
            a == UpdateArgs(filter_query, update_data)
        IN  IF s.kind = "raise" THEN s
            ELSE IF ~a.ok THEN Raise(a.msg, w)
            ELSE LET set == a.u["$set"]
                     hit == {i \in DOMAIN w.coll : Matches(w.coll[i], a.q)}
                     changed == {i \in hit : ApplySet(w.coll[i], set) # w.coll[i]}
                 IN
                 IF hit # {}
                 THEN MongoFinish(w, f, "update_many",
                                  UpdateResult(database_name, collection_name,
                                               Cardinality(hit), Cardinality(changed), NoneVal),
                                  [i \in DOMAIN w.coll |->
                                      IF i \in hit THEN ApplySet(w.coll[i], set) ELSE w.coll[i]],
                                  w.nextOid)
                 ELSE IF upsert
                 THEN LET d == UpsertDoc(a.q, set, FreshIdx(w)) IN
                      MongoFinish(w, f, "update_many",
                                  UpdateResult(database_name, collection_name, 0, 0, PyStr(d._id)),
                                  Append(w.coll, d),
                                  IF "_id" \in DOMAIN a.q THEN w.nextOid ELSE FreshIdx(w) + 1)
                 ELSE MongoFinish(w, f, "update_many",
                                  UpdateResult(database_name, collection_name, 0, 0, NoneVal),
                                  w.coll, w.nextOid))

DeleteResult(database_name, collection_name, n) ==
    [success |-> TRUE, database |-> database_name, collection |-> collection_name,
     deleted_count |-> n, message |-> ToString(n) \o " document(s) deleted"]

delete_document(w0, mongo_uri, database_name, collection_name, filter_query, f) ==
    LET c == get_connection(Call(w0, "delete_document"), mongo_uri, f)
        w == c.w
    IN  MongoTry(c, f,
        LET s == SelectCollection(w, database_name, collection_name)
            q == ParseFilter(filter_query)
        IN  IF s.kind = "raise" THEN s
            ELSE IF ~q.ok THEN Raise(q.msg, w)
            ELSE IF Matching(w.coll, q.val) = <<>>
            THEN MongoFinish(w, f, "delete_one", DeleteResult(database_name, collection_name, 0),
                             w.coll, w.nextOid)
            ELSE LET i == FirstMatch(w.coll, q.val) IN
                 MongoFinish(w, f, "delete_one", DeleteResult(database_name, collection_name, 1),
                             SubSeq(w.coll, 1, i - 1) \o SubSeq(w.coll, i + 1, Len(w.coll)),
                             w.nextOid))

delete_many_documents(w0, mongo_uri, database_name, collection_name, filter_query, f) ==
    LET c == get_connection(Call(w0, "delete_many_documents"), mongo_uri, f)
        w == c.w
    IN  MongoTry(c, f,
        LET s == SelectCollection(w, database_name, collection_name)
            q == ParseFilter(filter_query)
        IN  IF s.kind = "raise" THEN s
            ELSE IF ~q.ok THEN Raise(q.msg, w)
            ELSE MongoFinish(w, f, "delete_many",
                             DeleteResult(database_name, collection_name, Len(Matching(w.coll, q.val))),
                             SelectSeq(w.coll, LAMBDA d : ~Matches(d, q.val)),
                             w.nextOid))

RECURSIVE RunPipeline(_, _)
RunPipeline(c, pipeline) ==
    IF pipeline = <<>> THEN c
    ELSE RunPipeline(Matching(c, Head(pipeline)["$match"]), Tail(pipeline))

aggregate(w0, mongo_uri, database_name, collection_name, pipeline, f) ==
    LET c == get_connection(Call(w0, "aggregate"), mongo_uri, f)
        w == c.w
    IN  MongoTry(c, f,
        LET s == SelectCollection(w, database_name, collection_name)
            p == IF pipeline = None THEN JsonOk(<<>>) ELSE JsonLoads(pipeline)
        IN  IF s.kind = "raise" THEN s
            ELSE IF ~p.ok THEN Raise(p.msg, w)
            ELSE IF pipeline = None THEN Raise("pipeline must be a list", w)
            ELSE LET result_data == ExtJson(RunPipeline(w.coll, p.val)) IN
                 MongoFinish(w, f, "aggregate",
                             [success |-> TRUE, database |-> database_name,
                              collection |-> collection_name,
                              documents |-> result_data, count |-> Len(result_data)],
                             w.coll, w.nextOid))

(***************************************************************************)
(* PostgreSQL: the server and the driver (psycopg2), as far as the backing *)
(* functions use them.  The database has at most one user table, t, with   *)
(* rows id = 1..n; w.pg = [exists, rows] is its committed content.         *)
(***************************************************************************)
SqlSelect == "SELECT * FROM t"
SqlSelectLower == "  select * from t"
SqlSelectParam == "SELECT * FROM t WHERE id = %s"
SqlInsert == "INSERT INTO t DEFAULT VALUES"
SqlInsertReturning == "INSERT INTO t DEFAULT VALUES RETURNING id"
SqlWithDelete == "WITH d AS (DELETE FROM t RETURNING *) SELECT * FROM d"
SqlDelete == "DELETE FROM t"
SqlCreate == "CREATE TABLE t (id serial, at timestamp)"
SqlDrop == "DROP TABLE t"
SqlBad == "SELEC"

\* sql.strip().upper() starts with 'SELECT' or with 'WITH'
IsSelectOrWith(sql) == sql \in {SqlSelect, SqlSelectLower, SqlSelectParam, SqlWithDelete}

Row(i) == [id |-> i, at |-> [t |-> "datetime", v |-> "2024-01-01 00:00:00"]]
Rows(n) == [i \in 1..n |-> Row(i)]

NoTable == "relation \"t\" does not exist"
SqlOk(db, hasRows, rows, rowcount) ==
    [ok |-> TRUE, msg |-> "", db |-> db, hasRows |-> hasRows, rows |-> rows, rowcount |-> rowcount]
SqlError(db, m) ==
    [ok |-> FALSE, msg |-> m, db |-> db, hasRows |-> FALSE, rows |-> <<>>, rowcount |-> -1]

\* what the server does with one statement inside the connection's transaction;
\* db is the content this transaction sees
Execute(db, query, params) ==
    CASE query \in {SqlSelect, SqlSelectLower} ->
            IF db.exists THEN SqlOk(db, TRUE, Rows(db.rows), db.rows) ELSE SqlError(db, NoTable)
      [] query = SqlSelectParam ->
            IF params = <<>> THEN SqlError(db, "syntax error at or near \"%\"")
            ELSE IF ~db.exists THEN SqlError(db, NoTable)
            ELSE LET rows == SelectSeq(Rows(db.rows), LAMBDA r : ToString(r.id) = params[1])
                 IN  SqlOk(db, TRUE, rows, Len(rows))
      [] query = SqlInsert ->
            IF db.exists THEN SqlOk([db EXCEPT !.rows = @ + 1], FALSE, <<>>, 1)
            ELSE SqlError(db, NoTable)
      [] query = SqlInsertReturning ->
            IF db.exists
            THEN SqlOk([db EXCEPT !.rows = @ + 1], TRUE, <<[id |-> db.rows + 1]>>, 1)
            ELSE SqlError(db, NoTable)
      [] query = SqlWithDelete ->
            IF db.exists THEN SqlOk([db EXCEPT !.rows = 0], TRUE, Rows(db.rows), db.rows)
            ELSE SqlError(db, NoTable)
      [] query = SqlDelete ->
            IF db.exists THEN SqlOk([db EXCEPT !.rows = 0], FALSE, <<>>, db.rows)
            ELSE SqlError(db, NoTable)
      [] query = SqlCreate ->
            IF db.exists THEN SqlError(db, "relation \"t\" already exists")
            ELSE SqlOk([exists |-> TRUE, rows |-> 0], FALSE, <<>>, -1)
      [] query = SqlDrop ->
            IF db.exists THEN SqlOk([exists |-> FALSE, rows |-> 0], FALSE, <<>>, -1)
            ELSE SqlError(db, "table \"t\" does not exist")
      [] OTHER -> SqlError(db, "syntax error at or near \"" \o query \o "\"")

\* f'{x}'
PyFormat(x) == IF x = None THEN "None" ELSE x

\* postgres_db.get_connection: parse_db_url and psycopg2.connect
pg_get_connection(w, db_url, f) ==
    IF "connect" \in f.fail
    THEN Raise("Connection error: " \o f.msg, Connect(w, "connect", db_url, FALSE))
    ELSE Return(TRUE, Connect(w, "connect", db_url, TRUE))

\* conn.close(); a transaction that was not committed is discarded
ConnClose(w, f) ==
    IF "close" \in f.fail THEN Raise(f.msg, EvFail(w, "close")) ELSE Return(TRUE, Ev(w, "close"))

\* conn.rollback()
ConnRollback(w, f) ==
    IF "rollback" \in f.fail THEN Raise(f.msg, EvFail(w, "rollback")) ELSE Return(TRUE, Ev(w, "rollback"))

\* cursor.execute(query, params or []) in a new transaction; params is the
\* list `params or []`
CursorExecute(w, query, params, f) ==
    IF query = None
    THEN [ok |-> FALSE, msg |-> "argument 1 must be a string or unicode object: got NoneType instead",
          w |-> w, x |-> SqlError(w.pg, "")]
    ELSE IF "op" \in f.fail
    THEN [ok |-> FALSE, msg |-> f.msg, w |-> EvFail(w, "execute"), x |-> SqlError(w.pg, "")]
    ELSE LET x == Execute(w.pg, query, params) IN
         [ok |-> x.ok, msg |-> x.msg, w |-> IF x.ok THEN Ev(w, "execute") ELSE EvFail(w, "execute"),
          x |-> x]

\* conn = None; try: conn = get_connection(db_url); <Body>
\* except Exception as e: if conn: conn.close(); return {success: False, error: str(e)}
\* conn.close() of an except handler, then return {"success": False, "error": msg}
CloseThenFail(x, msg) == IF x.kind = "raise" THEN x ELSE Return(Failure(msg), x.w)

\* c is the outcome of get_connection, b that of <Body> on the connection
PgTry(c, f, b) ==
    IF c.kind = "raise" THEN Return(Failure(c.msg), c.w)
    ELSE IF b.kind = "return" THEN b
    ELSE CloseThenFail(ConnClose(b.w, f), b.msg)

\* a read path on a connection in autocommit mode: the statement's effect is kept
PgReadAutocommit(w, query, params, f) ==
    LET e == CursorExecute(w, query, params, f) IN
    IF ~e.ok THEN Raise(e.msg, e.w)
    ELSE IF ~e.x.hasRows THEN Raise("no results to fetch", [e.w EXCEPT !.pg = e.x.db])
    ELSE LET x == ConnClose([e.w EXCEPT !.pg = e.x.db], f) IN
         IF x.kind = "raise" THEN x
         ELSE Return([success |-> TRUE, rows |-> e.x.rows, count |-> Len(e.x.rows)], x.w)

\* cursor.execute; rows = cursor.fetchall(); conn.close(); return {.. rows ..}
PgRead(w, query, params, f) ==
    LET e == CursorExecute(w, query, params, f) IN
    IF ~e.ok THEN Raise(e.msg, e.w)
    ELSE IF ~e.x.hasRows THEN Raise("no results to fetch", e.w)
    ELSE LET x == ConnClose(e.w, f) IN
         IF x.kind = "raise" THEN x
         ELSE Return([success |-> TRUE, rows |-> e.x.rows, count |-> Len(e.x.rows)], x.w)

execute_query_at(w0, k, db_url, query, params, f) ==
    LET w1 == [w0 EXCEPT !.trace = Append(@, [k |-> k, n |-> "execute_query", ok |-> TRUE])]
        c == pg_get_connection(w1, db_url, f)
    IN  PgTry(c, f, PgRead(c.w, query, params, f))

execute_query(w0, db_url, query, params, f) == execute_query_at(w0, "call", db_url, query, params, f)

\* conn.commit() makes the transaction's content the committed one; e is the
\* outcome of cursor.execute
Commit(e, f) ==
    IF ~e.ok THEN Raise(e.msg, e.w)
    ELSE IF "commit" \in f.fail THEN Raise(f.msg, EvFail(e.w, "commit"))
    ELSE Return(TRUE, [Ev(e.w, "commit") EXCEPT !.pg = e.x.db])

\* conn.close(); return {"success": True, "rows_affected": ..}; m is the outcome of the commit
WriteResult(e, m, x) ==
    IF m.kind = "raise" THEN m
    ELSE IF x.kind = "raise" THEN x
    ELSE Return([success |-> TRUE, rows_affected |-> e.x.rowcount,
                 message |-> "Query executed successfully. "
                             \o ToString(e.x.rowcount) \o " row(s) affected."],
                x.w)

\* except Exception as e: if conn: conn.rollback(); conn.close(); return {..}
WriteExcept(b, r, f) ==
    IF b.kind = "return" THEN b
    ELSE IF r.kind = "raise" THEN r
    ELSE CloseThenFail(ConnClose(r.w, f), b.msg)

WriteBody(e, m, f) == WriteResult(e, m, ConnClose(m.w, f))
WriteTry(b, f) == WriteExcept(b, ConnRollback(b.w, f), f)
WriteExecuted(e, f) == WriteTry(WriteBody(e, Commit(e, f), f), f)
WriteConnected(c, query, params, f) ==
    IF c.kind = "raise" THEN Return(Failure(c.msg), c.w)
    ELSE WriteExecuted(CursorExecute(c.w, query, params, f), f)

execute_write_at(w0, k, db_url, query, params, f) ==
    WriteConnected(
        pg_get_connection([w0 EXCEPT !.trace = Append(@, [k |-> k, n |-> "execute_write", ok |-> TRUE])],
                          db_url, f),
        query, params, f)

execute_write(w0, db_url, query, params, f) == execute_write_at(w0, "call", db_url, query, params, f)

list_tables(w0, db_url, f) ==
    LET c == pg_get_connection(Call(w0, "list_tables"), db_url, f)
        w == c.w
    IN  PgTry(c, f,
        IF "op" \in f.fail THEN Raise(f.msg, EvFail(w, "execute"))
        ELSE LET tables == IF w.pg.exists THEN <<[table_name |-> "t", table_schema |-> "public"]>>
                           ELSE <<>>
                 x == ConnClose(Ev(w, "execute"), f)
             IN  IF x.kind = "raise" THEN x
                 ELSE Return([success |-> TRUE, tables |-> tables, count |-> Len(tables)], x.w))

TColumns ==
    <<[column_name |-> "id", data_type |-> "integer", is_nullable |-> "NO"],
      [column_name |-> "at", data_type |-> "timestamp without time zone", is_nullable |-> "YES"]>>

describe_table(w0, db_url, table_name, f) ==
    LET c == pg_get_connection(Call(w0, "describe_table"), db_url, f)
        w == c.w
    IN  PgTry(c, f,
        IF "op" \in f.fail THEN Raise(f.msg, EvFail(w, "execute"))
        ELSE LET columns == IF w.pg.exists /\ table_name = "t" THEN TColumns ELSE <<>>
                 x == ConnClose(Ev(w, "execute"), f)
             IN  IF x.kind = "raise" THEN x
                 ELSE IF columns = <<>>
                 THEN Return(Failure("Table '" \o PyFormat(table_name) \o "' not found"), x.w)
                 ELSE Return([success |-> TRUE, table_name |-> table_name, columns |-> columns], x.w))

get_table_count(w0, db_url, table_name, f) ==
    LET c == pg_get_connection(Call(w0, "get_table_count"), db_url, f)
        w == c.w
    IN  PgTry(c, f,
        IF "op" \in f.fail THEN Raise(f.msg, EvFail(w, "execute"))
        ELSE IF ~(w.pg.exists /\ PyFormat(table_name) = "t")
        THEN Raise("relation \"" \o PyFormat(table_name) \o "\" does not exist", EvFail(w, "execute"))
        ELSE LET x == ConnClose(Ev(w, "execute"), f) IN
             IF x.kind = "raise" THEN x
             ELSE Return([success |-> TRUE, table_name |-> table_name, count |-> w.pg.rows], x.w))

run_custom_sql(w0, db_url, sql, params, f) ==
    LET w == Call(w0, "run_custom_sql") IN
    IF sql = None THEN Raise("'NoneType' object has no attribute 'strip'", w)
    ELSE IF IsSelectOrWith(sql) THEN execute_query_at(w, "nested", db_url, sql, params, f)
    ELSE execute_write_at(w, "nested", db_url, sql, params, f)

(***************************************************************************)
(* Google: authorisation (google_auth) and the Sheets, Gmail and Calendar  *)
(* services, as far as the backing functions use them.                     *)
(* w.goog = [token, credfile, sheet, sent, events, created]:                *)
(*   token     tokens.json: "absent", "stale" (expired, no refresh token), *)
(*             "expired" (with a refresh token) or "valid";                *)
(*   credfile  credentials.json exists;                                    *)
(*   sheet     the number of rows of Sheet1 of spreadsheet S1;             *)
(*   sent      the number of messages sent;                                *)
(*   events    the calendar events;  created  how many were ever created.  *)
(* The mailbox holds the messages Inbox.                                   *)
(***************************************************************************)
Inbox == <<"m1", "m2">>
Calendars == {"primary", "cal1"}
EventIds == <<"e1", "e2", "e3">>

\* get_credentials that writes tokens.json on every path that returns
get_credentials_saving(w, f) ==
    IF w.goog.token = "valid" THEN Return(TRUE, Ev(w, "save_token"))
    ELSE IF w.goog.token = "expired"
    THEN IF "auth" \in f.fail THEN Raise(f.msg, EvFail(w, "refresh"))
         ELSE Return(TRUE, [Ev(Ev(w, "refresh"), "save_token") EXCEPT !.goog.token = "valid"])
    ELSE IF ~w.goog.credfile
    THEN Raise("credentials.json not found at <parent>/credentials.json. Please create it with your OAuth2 credentials.", w)
    ELSE IF "auth" \in f.fail THEN Raise(f.msg, EvFail(w, "run_local_server"))
    ELSE Return(TRUE, [Ev(Ev(w, "run_local_server"), "save_token") EXCEPT !.goog.token = "valid"])

\* google_auth.get_credentials
get_credentials(w, f) ==
    IF w.goog.token = "valid" THEN Return(TRUE, w)
    ELSE IF w.goog.token = "expired"
    THEN IF "auth" \in f.fail THEN Raise(f.msg, EvFail(w, "refresh"))
         ELSE Return(TRUE, [Ev(Ev(w, "refresh"), "save_token") EXCEPT !.goog.token = "valid"])
    ELSE IF ~w.goog.credfile
    THEN Raise("credentials.json not found at <parent>/credentials.json. Please create it with your OAuth2 credentials.", w)
    ELSE IF "auth" \in f.fail THEN Raise(f.msg, EvFail(w, "run_local_server"))
    ELSE Return(TRUE, [Ev(Ev(w, "run_local_server"), "save_token") EXCEPT !.goog.token = "valid"])

\* get_sheets_service / get_gmail_service / get_calendar_service
get_service(w, f) ==
    LET c == get_credentials(w, f) IN
    IF c.kind = "raise" THEN c ELSE Return(TRUE, Ev(c.w, "build"))

\* try: <Body> except Exception as error: return {'success': False, 'error': str(error)}
GoogleTry(b) == IF b.kind = "return" THEN b ELSE Return(Failure(b.msg), b.w)

MissingParameter(p) == "Missing required parameter \"" \o p \o "\""
NotFound == "<HttpError 404 \"Requested entity was not found.\">"

\* request.execute() of a request on spreadsheet spreadsheet_id
SheetsRequest(w, f, op, spreadsheet_id, needsRange, range_name) ==
    IF spreadsheet_id = None THEN Raise(MissingParameter("spreadsheetId"), w)
    ELSE IF needsRange /\ range_name = None THEN Raise(MissingParameter("range"), w)
    ELSE IF "op" \in f.fail THEN Raise(f.msg, EvFail(w, op))
    ELSE IF spreadsheet_id # "S1" THEN Raise(NotFound, EvFail(w, op))
    ELSE Return(TRUE, Ev(w, op))

SheetValues(n) == [i \in 1..n |-> <<"v">>]

read_sheet_data(w0, spreadsheet_id, range_name, f) ==
    GoogleTry(
        LET s == get_service(Call(w0, "read_sheet_data"), f) IN
        IF s.kind = "raise" THEN s
        ELSE LET r == SheetsRequest(s.w, f, "values.get", spreadsheet_id, TRUE, range_name) IN
             IF r.kind = "raise" THEN r
             ELSE Return([success |-> TRUE, data |-> SheetValues(r.w.goog.sheet), range |-> range_name], r.w))

write_sheet_data(w0, spreadsheet_id, range_name, values, f) ==
    GoogleTry(
        LET s == get_service(Call(w0, "write_sheet_data"), f) IN
        IF s.kind = "raise" THEN s
        ELSE LET r == SheetsRequest(s.w, f, "values.update", spreadsheet_id, TRUE, range_name) IN
             IF r.kind = "raise" THEN r
             ELSE Return([success |-> TRUE, updatedCells |-> Len(values), updatedRange |-> range_name],
                         [r.w EXCEPT !.goog.sheet = IF @ < Len(values) THEN Len(values) ELSE @]))

append_sheet_data(w0, spreadsheet_id, range_name, values, f) ==
    GoogleTry(
        LET s == get_service(Call(w0, "append_sheet_data"), f) IN
        IF s.kind = "raise" THEN s
        ELSE LET r == SheetsRequest(s.w, f, "values.append", spreadsheet_id, TRUE, range_name) IN
             IF r.kind = "raise" THEN r
             ELSE Return([success |-> TRUE, updatedCells |-> Len(values), updatedRange |-> range_name],
                         [r.w EXCEPT !.goog.sheet = @ + Len(values)]))

get_sheet_info(w0, spreadsheet_id, f) ==
    GoogleTry(
        LET s == get_service(Call(w0, "get_sheet_info"), f) IN
        IF s.kind = "raise" THEN s
        ELSE LET r == SheetsRequest(s.w, f, "spreadsheets.get", spreadsheet_id, FALSE, None) IN
             IF r.kind = "raise" THEN r
             ELSE Return([success |-> TRUE, title |-> "Book",
                          sheets |-> <<[title |-> "Sheet1", sheetId |-> 0,
                                        rowCount |-> r.w.goog.sheet, columnCount |-> 1]>>], r.w))

\* the mailbox's answer to a search query
MailMatching(query) == IF query = "" \/ query = None THEN Inbox ELSE <<>>

MailData(id) == [id |-> id, threadId |-> id, subject |-> "hello", snippet |-> "hi", body |-> "hi"]

\* get_email_detail; k tells whether the dispatcher or list_emails calls it, and
\* step names the fault that makes its request fail
get_email_detail_at(w0, k, message_id, f, step) ==
    GoogleTry(
        LET s == get_service([w0 EXCEPT !.trace = Append(@, [k |-> k, n |-> "get_email_detail", ok |-> TRUE])], f) IN
        IF s.kind = "raise" THEN s
        ELSE IF step \in f.fail THEN Raise(f.msg, EvFail(s.w, "messages.get"))
        ELSE IF message_id \notin Range(Inbox) THEN Raise(NotFound, EvFail(s.w, "messages.get"))
        ELSE Return([success |-> TRUE, data |-> MailData(message_id)], Ev(s.w, "messages.get")))

get_email_detail(w0, message_id, f) == get_email_detail_at(w0, "call", message_id, f, "op")

\* for message in messages: detail = get_email_detail(message['id']); if detail['success']: ...
RECURSIVE EmailDetails(_, _, _, _)
EmailDetails(w, messages, f, message_details) ==
    IF messages = <<>> THEN [w |-> w, message_details |-> message_details]
    ELSE LET detail == get_email_detail_at(w, "nested", Head(messages), f, "op2") IN
         EmailDetails(detail.w, Tail(messages), f,
                      IF detail.ret.success THEN Append(message_details, detail.ret.data)
                      ELSE message_details)

list_emails(w0, max_results, query, f) ==
    GoogleTry(
        LET s == get_service(Call(w0, "list_emails"), f) IN
        IF s.kind = "raise" THEN s
        ELSE IF "op" \in f.fail THEN Raise(f.msg, EvFail(s.w, "messages.list"))
        ELSE LET messages == Limit(MailMatching(query), max_results)
                 d == EmailDetails(Ev(s.w, "messages.list"), messages, f, <<>>)
             IN  Return([success |-> TRUE, messages |-> d.message_details,
                         total |-> Len(MailMatching(query))], d.w))

send_email(w0, to, subject, body, is_html, f) ==
    GoogleTry(
        LET s == get_service(Call(w0, "send_email"), f) IN
        IF s.kind = "raise" THEN s
        ELSE IF body = None THEN Raise("'NoneType' object has no attribute 'encode'", s.w)
        ELSE IF "op" \in f.fail THEN Raise(f.msg, EvFail(s.w, "messages.send"))
        ELSE Return([success |-> TRUE, messageId |-> "s" \o ToString(s.w.goog.sent + 1),
                     threadId |-> "s" \o ToString(s.w.goog.sent + 1)],
                    [Ev(s.w, "messages.send") EXCEPT !.goog.sent = @ + 1]))

\* search_emails that fetches every hit's detail, as list_emails does
search_emails_detailed(w0, query, f) == list_emails(w0, 10, query, f)

search_emails(w0, query, f) ==
    GoogleTry(
        LET s == get_service(Call(w0, "search_emails"), f) IN
        IF s.kind = "raise" THEN s
        ELSE IF "op" \in f.fail THEN Raise(f.msg, EvFail(s.w, "messages.list"))
        ELSE Return([success |-> TRUE, messageIds |-> MailMatching(query),
                     total |-> Len(MailMatching(query))], Ev(s.w, "messages.list")))

TNaive == "2024-01-01T00:00:00"
TLater == "2024-02-02T00:00:00"
TZulu == "2024-01-01T00:00:00Z"
TBad == "tomorrow"

\* datetime.fromisoformat(time_min.replace('Z', '+00:00')).isoformat() + 'Z'
IsoPlusZ(time_min) ==
    CASE time_min = TNaive -> [ok |-> TRUE, val |-> "2024-01-01T00:00:00Z", msg |-> ""]
      [] time_min = TZulu -> [ok |-> TRUE, val |-> "2024-01-01T00:00:00+00:00Z", msg |-> ""]
      [] OTHER -> [ok |-> FALSE, val |-> "", msg |-> "Invalid isoformat string: '" \o time_min \o "'"]

\* the Calendar API accepts an RFC 3339 timestamp
Rfc3339(x) == x \in {"2024-01-01T00:00:00Z", "<utcnow>Z"}

EventsOf(w, calendar_id) == SelectSeq(w.goog.events, LAMBDA e : e.cal = calendar_id)
HasEvent(w, calendar_id, event_id) ==
    \E i \in DOMAIN w.goog.events : w.goog.events[i].cal = calendar_id /\ w.goog.events[i].id = event_id
EventIdx(w, calendar_id, event_id) ==
    CHOOSE i \in DOMAIN w.goog.events : w.goog.events[i].cal = calendar_id /\ w.goog.events[i].id = event_id

\* the mapping list_events and get_event build from a stored event
FormatEvent(e) ==
    [id |-> e.id, summary |-> e.summary, description |-> e.description,
     start |-> e.start, end |-> e.end, location |-> e.location,
     attendees |-> e.attendees, status |-> "confirmed"]

list_events(w0, calendar_id, max_results, time_min, f) ==
    GoogleTry(
        LET s == get_service(Call(w0, "list_events"), f)
            t == IF time_min = None THEN [ok |-> TRUE, val |-> "<utcnow>Z", msg |-> ""]
                 ELSE IsoPlusZ(time_min)
            op == "events.list@" \o calendar_id
        IN  IF s.kind = "raise" THEN s
            ELSE IF ~t.ok THEN Raise(t.msg, s.w)
            ELSE IF "op" \in f.fail THEN Raise(f.msg, EvFail(s.w, op))
            ELSE IF calendar_id \notin Calendars THEN Raise(NotFound, EvFail(s.w, op))
            ELSE IF ~Rfc3339(t.val) THEN Raise("<HttpError 400 \"Bad Request\">", EvFail(s.w, op))
            ELSE LET events == Limit(EventsOf(s.w, calendar_id), max_results)
                     formatted_events == [i \in DOMAIN events |-> FormatEvent(events[i])]
                 IN  Return([success |-> TRUE, events |-> formatted_events,
                             total |-> Len(formatted_events)], Ev(s.w, op)))

\* event_data is the mapping call_tool builds; a key it does not hold is absent
create_event(w0, calendar_id, event_data, f) ==
    GoogleTry(
        LET s == get_service(Call(w0, "create_event"), f)
            op == "events.insert@" \o calendar_id
            id == EventIds[s.w.goog.created + 1]
            e == [cal |-> calendar_id, id |-> id,
                  summary |-> GetD(event_data, "summary", ""),
                  description |-> GetD(event_data, "description", ""),
                  start |-> GetD(event_data, "start", "<utcnow>Z"),
                  end |-> GetD(event_data, "end", "<utcnow+1h>Z"),
                  startTz |-> GetD(event_data, "timeZone", "America/Los_Angeles"),
                  endTz |-> GetD(event_data, "timeZone", "America/Los_Angeles"),
                  location |-> GetD(event_data, "location", ""),
                  attendees |-> GetD(event_data, "attendees", <<>>)]
        IN  IF s.kind = "raise" THEN s
            ELSE IF "op" \in f.fail THEN Raise(f.msg, EvFail(s.w, op))
            ELSE IF calendar_id \notin Calendars THEN Raise(NotFound, EvFail(s.w, op))
            ELSE Return([success |-> TRUE, eventId |-> id, htmlLink |-> "https://calendar/" \o id,
                         event |-> [id |-> id, summary |-> e.summary, start |-> e.start, end |-> e.end]],
                        [Ev(s.w, op) EXCEPT !.goog.events = Append(@, e), !.goog.created = @ + 1]))

\* event[k] = event_data[k] for every key handed over, empty or not
PatchAll(e, event_data) ==
    [k \in DOMAIN e |-> IF k \in DOMAIN event_data THEN event_data[k] ELSE e[k]]

\* if event_data.get(k): event[k] = event_data[k]
Truthy(event_data, k) == k \in DOMAIN event_data /\ event_data[k] \notin {None, ""}
Patch(e, event_data) ==
    [k \in DOMAIN e |->
        IF k \in {"summary", "description", "start", "end", "location"} /\ Truthy(event_data, k)
        THEN event_data[k]
        ELSE IF k = "attendees" /\ k \in DOMAIN event_data /\ event_data[k] # <<>>
        THEN event_data[k]
        ELSE IF k = "startTz" /\ Truthy(event_data, "start")
        THEN GetD(event_data, "timeZone", "America/Los_Angeles")
        ELSE IF k = "endTz" /\ Truthy(event_data, "end")
        THEN GetD(event_data, "timeZone", "America/Los_Angeles")
        ELSE e[k]]

update_event(w0, calendar_id, event_id, event_data, f) ==
    GoogleTry(
        LET w1 == Call(w0, "update_event")
            s == get_service(w1, f)
            get == "events.get@" \o calendar_id
            upd == "events.update@" \o calendar_id
        IN  IF event_id = None THEN Raise("event_id is required", w1)
            ELSE IF s.kind = "raise" THEN s
            ELSE IF "op" \in f.fail THEN Raise(f.msg, EvFail(s.w, get))
            ELSE IF ~HasEvent(s.w, calendar_id, event_id) THEN Raise(NotFound, EvFail(s.w, get))
            ELSE IF "op2" \in f.fail THEN Raise(f.msg, EvFail(Ev(s.w, get), upd))
            ELSE LET i == EventIdx(s.w, calendar_id, event_id)
                     event == Patch(s.w.goog.events[i], event_data)
                 IN  Return([success |-> TRUE, eventId |-> event_id,
                             htmlLink |-> "https://calendar/" \o event_id],
                            [Ev(Ev(s.w, get), upd) EXCEPT !.goog.events[i] = event]))

delete_event(w0, calendar_id, event_id, f) ==
    GoogleTry(
        LET w1 == Call(w0, "delete_event")
            s == get_service(w1, f)
            op == "events.delete@" \o calendar_id
        IN  IF event_id = None THEN Raise("event_id is required", w1)
            ELSE IF s.kind = "raise" THEN s
            ELSE IF "op" \in f.fail THEN Raise(f.msg, EvFail(s.w, op))
            ELSE IF ~HasEvent(s.w, calendar_id, event_id) THEN Raise(NotFound, EvFail(s.w, op))
            ELSE LET i == EventIdx(s.w, calendar_id, event_id) IN
                 Return([success |-> TRUE, message |-> "Event deleted successfully"],
                        [Ev(s.w, op) EXCEPT !.goog.events =
                            SubSeq(@, 1, i - 1) \o SubSeq(@, i + 1, Len(@))]))

get_event(w0, calendar_id, event_id, f) ==
    GoogleTry(
        LET w1 == Call(w0, "get_event")
            s == get_service(w1, f)
            op == "events.get@" \o calendar_id
        IN  IF event_id = None THEN Raise("event_id is required", w1)
            ELSE IF s.kind = "raise" THEN s
            ELSE IF "op" \in f.fail THEN Raise(f.msg, EvFail(s.w, op))
            ELSE IF ~HasEvent(s.w, calendar_id, event_id) THEN Raise(NotFound, EvFail(s.w, op))
            ELSE Return([success |-> TRUE,
                         event |-> FormatEvent(s.w.goog.events[EventIdx(s.w, calendar_id, event_id)])],
                        Ev(s.w, op)))

(***************************************************************************)
(* json.dumps of a result: with default=str a value that JSON cannot hold  *)
(* (an ObjectId, a datetime) becomes str(value)                            *)
(***************************************************************************)
DumpVal(x) == IF x.t \in {"oid", "datetime"} THEN Str(x.v) ELSE x

MongoJsonDumps(result) ==
    IF "documents" \in DOMAIN result
    THEN [result EXCEPT !.documents = [i \in DOMAIN @ |-> [k \in DOMAIN @[i] |-> DumpVal(@[i][k])]]]
    ELSE result

PgJsonDumps(result) ==
    IF "rows" \in DOMAIN result
    THEN [result EXCEPT !.rows = [i \in DOMAIN @ |->
                [k \in DOMAIN @[i] |-> IF k = "at" THEN DumpVal(@[i][k]) ELSE @[i][k]]]]
    ELSE result

(***************************************************************************)
(* config.json and load_config                                             *)
(***************************************************************************)
CfAbsent == [kind |-> "absent", val |-> <<>>]     \* no config.json
CfInvalid == [kind |-> "invalid", val |-> <<>>]   \* a file that is not JSON
CfList == [kind |-> "list", val |-> <<>>]         \* a JSON array
CfEmpty == [kind |-> "dict", val |-> <<>>]        \* {}
CfNoUri == [kind |-> "dict",
            val |-> [mongodb |-> [uri |-> ""], database |-> <<>>, google |-> <<>>]]
CfFull == [kind |-> "dict",
           val |-> [mongodb |-> [uri |-> "mongodb://a"], database |-> [url |-> "postgresql://a"],
                    google |-> [spreadsheetId |-> "S1", calendarId |-> "cal1"]]]

ConfigFiles == {CfAbsent, CfInvalid, CfList, CfEmpty, CfNoUri, CfFull}

JsonDecodeError == "Expecting value: line 1 column 1 (char 0)"

\* mongodb_mcp.load_config / postgres_mcp.load_config; key is 'mongodb' or 'database'
load_config(cf, key) ==
    CASE cf.kind = "absent" -> [kind |-> "dict", val |-> key :> <<>>]
      [] cf.kind = "invalid" -> [kind |-> "dict", val |-> (key :> <<>>) @@ [error |-> JsonDecodeError]]
      [] OTHER -> cf

\* the lookup with a local server as the default instead of ''
ConfigEntryOrLocal(current_config, key, entry) ==
    IF current_config.kind = "list"
    THEN [ok |-> FALSE, val |-> "", msg |-> "'list' object has no attribute 'get'"]
    ELSE [ok |-> TRUE, msg |-> "",
          val |-> IF key \in DOMAIN current_config.val /\ entry \in DOMAIN current_config.val[key]
                     /\ current_config.val[key][entry] # ""
                  THEN current_config.val[key][entry] ELSE "localhost"]

\* current_config.get(key, {}).get(entry, '')
ConfigEntry(current_config, key, entry) ==
    IF current_config.kind = "list"
    THEN [ok |-> FALSE, val |-> "", msg |-> "'list' object has no attribute 'get'"]
    ELSE [ok |-> TRUE, msg |-> "",
          val |-> IF key \in DOMAIN current_config.val /\ entry \in DOMAIN current_config.val[key]
                  THEN current_config.val[key][entry] ELSE ""]

ConfigPath == "<parent>/config.json"

\* the error_msg mapping of the "not configured" branch
ConfigErrorMsg(cf, current_config, error, details) ==
    LET error_msg == [success |-> FALSE, error |-> error, details |-> details,
                      config_location |-> ConfigPath,
                      config_exists |-> (cf.kind # "absent"),
                      config_keys |-> DOMAIN current_config.val]
    IN  IF "error" \in DOMAIN current_config.val
        THEN error_msg @@ [config_error |-> current_config.val.error]
        ELSE error_msg

(***************************************************************************)
(* mongodb_mcp: list_tools and call_tool                                   *)
(***************************************************************************)
MongoTools ==
    <<"list_databases", "list_collections", "find_documents", "insert_document",
      "insert_many_documents", "update_document", "update_many_documents",
      "delete_document", "delete_many_documents", "count_documents", "aggregate">>

\* the 'required' list of each descriptor
MongoRequired(name) ==
    CASE name = "list_databases" -> {}
      [] name = "list_collections" -> {"database_name"}
      [] name \in {"find_documents", "count_documents"} -> {"database_name", "collection_name"}
      [] name = "insert_document" -> {"database_name", "collection_name", "document"}
      [] name = "insert_many_documents" -> {"database_name", "collection_name", "documents"}
      [] name \in {"update_document", "update_many_documents"} ->
            {"database_name", "collection_name", "filter_query", "update_data"}
      [] name \in {"delete_document", "delete_many_documents"} ->
            {"database_name", "collection_name", "filter_query"}
      [] name = "aggregate" -> {"database_name", "collection_name", "pipeline"}
      [] OTHER -> {}

\* the if/elif chain of call_tool: the backing function the name selects, applied
\* the names the if/elif chain of call_tool tests; any other reaches its else
MongoBranches ==
    {"list_databases", "list_collections", "find_documents", "insert_document",
     "insert_many_documents", "update_document", "update_many_documents",
     "delete_document", "delete_many_documents", "count_documents", "aggregate"}

MongoDispatch(w, name, arguments, uri, f) ==
    LET database_name == Get(arguments, "database_name")
        collection_name == Get(arguments, "collection_name")
    IN
    CASE name = "list_databases" -> list_databases(w, uri, f)
      [] name = "list_collections" -> list_collections(w, uri, database_name, f)
      [] name = "find_documents" ->
            find_documents(w, uri, database_name, collection_name, Get(arguments, "query"),
                           GetD(arguments, "limit", 100), GetD(arguments, "skip", 0),
                           Get(arguments, "sort"), f)
      [] name = "insert_document" ->
            insert_document(w, uri, database_name, collection_name, Get(arguments, "document"), f)
      [] name = "insert_many_documents" ->
            insert_many_documents(w, uri, database_name, collection_name, Get(arguments, "documents"), f)
      [] name = "update_document" ->
            update_document(w, uri, database_name, collection_name, Get(arguments, "filter_query"),
                            Get(arguments, "update_data"), GetD(arguments, "upsert", FALSE), f)
      [] name = "update_many_documents" ->
            update_many_documents(w, uri, database_name, collection_name, Get(arguments, "filter_query"),
                                  Get(arguments, "update_data"), GetD(arguments, "upsert", FALSE), f)
      [] name = "delete_document" ->
            delete_document(w, uri, database_name, collection_name, Get(arguments, "filter_query"), f)
      [] name = "delete_many_documents" ->
            delete_many_documents(w, uri, database_name, collection_name, Get(arguments, "filter_query"), f)
      [] name = "count_documents" ->
            count_documents(w, uri, database_name, collection_name, Get(arguments, "query"), f)
      [] name = "aggregate" ->
            aggregate(w, uri, database_name, collection_name, Get(arguments, "pipeline"), f)

\* What one call_tool invocation did: the decoded text block it returned (or
\* raised = TRUE when an exception left the handler), whether the except
\* clause ran and on which str(error), whether an exception escaped from a
\* backing function, and the external world afterwards (its trace holds the
\* backing functions entered and the external calls made).
Handled(result, escaped, w) ==
    [result |-> result, raised |-> FALSE, caught |-> FALSE, exc |-> "",
     escaped |-> escaped, w |-> w]

\* else: result = {"success": False, "error": f"Unknown tool: {name}"}
\* the else branch with a fixed message that does not name the tool
UnknownToolNoName(name) == Failure("Unknown tool")

UnknownTool(name) == Failure("Unknown tool: " \o name)

\* except Exception as error: return [TextContent(.., json.dumps({success: False, error: str(error)}))]
\* call_tool without its except clause: the exception leaves the handler
Propagated(msg, escaped, w) ==
    [result |-> Failure(msg), raised |-> TRUE, caught |-> FALSE, exc |-> msg,
     escaped |-> escaped, w |-> w]

Caught(msg, escaped, w) ==
    [result |-> Failure(msg), raised |-> FALSE, caught |-> TRUE, exc |-> msg,
     escaped |-> escaped, w |-> w]

\* a backing function was entered before the exception reached call_tool
Entered(w) == \E i \in DOMAIN w.trace : w.trace[i].k = "call"

\* return [TextContent(type="text", text=json.dumps(result, indent=2, default=str))],
\* or the except clause when the chain raised; o is the outcome of the chain
MongoRespond(o) ==
    IF o.kind = "raise" THEN Caught(o.msg, Entered(o.w), o.w)
    ELSE Handled(MongoJsonDumps(o.ret), FALSE, o.w)

mongo_call_tool(w, cf, name, arguments, f) ==
    LET current_config == load_config(cf, "mongodb")
        current_mongo_uri == ConfigEntry(current_config, "mongodb", "uri")
    IN  IF ~current_mongo_uri.ok THEN Caught(current_mongo_uri.msg, FALSE, w)
        ELSE IF current_mongo_uri.val = ""
        THEN Handled(ConfigErrorMsg(cf, current_config, "MongoDB URI not configured",
                                    "Please add 'mongodb.uri' to config.json"), FALSE, w)
        ELSE IF name \notin MongoBranches
        THEN Handled(UnknownTool(name), FALSE, w)
        ELSE MongoRespond(MongoDispatch(w, name, arguments, current_mongo_uri.val, f))

(***************************************************************************)
(* postgres_mcp: list_tools and call_tool                                  *)
(***************************************************************************)
\* a list that advertises a name call_tool has no branch for
PgToolsAndUnrouted ==
    <<"execute_query", "execute_write", "run_custom_sql", "list_tables",
      "describe_table", "get_table_count", "drop_database">>

PgTools ==
    <<"execute_query", "execute_write", "run_custom_sql", "list_tables",
      "describe_table", "get_table_count">>

PgRequired(name) ==
    CASE name \in {"execute_query", "execute_write"} -> {"query"}
      [] name = "run_custom_sql" -> {"sql"}
      [] name \in {"describe_table", "get_table_count"} -> {"table_name"}
      [] OTHER -> {}

\* the names the if/elif chain of call_tool tests; any other reaches its else
PgBranches ==
    {"execute_query", "execute_write", "run_custom_sql", "list_tables",
     "describe_table", "get_table_count"}

PgDispatch(w, name, arguments, url, f) ==
    LET params == GetD(arguments, "params", <<>>) IN
    CASE name = "execute_query" -> execute_query(w, url, Get(arguments, "query"), params, f)
      [] name = "execute_write" -> execute_write(w, url, Get(arguments, "query"), params, f)
      [] name = "run_custom_sql" -> run_custom_sql(w, url, Get(arguments, "sql"), params, f)
      [] name = "list_tables" -> list_tables(w, url, f)
      [] name = "describe_table" -> describe_table(w, url, Get(arguments, "table_name"), f)
      [] name = "get_table_count" -> get_table_count(w, url, Get(arguments, "table_name"), f)

PgRespond(o) ==
    IF o.kind = "raise" THEN Caught(o.msg, Entered(o.w), o.w)
    ELSE Handled(PgJsonDumps(o.ret), FALSE, o.w)

pg_call_tool(w, cf, name, arguments, f) ==
    LET current_config == load_config(cf, "database")
        current_db_url == ConfigEntry(current_config, "database", "url")
    IN  IF ~current_db_url.ok THEN Caught(current_db_url.msg, FALSE, w)
        ELSE IF current_db_url.val = ""
        THEN Handled(ConfigErrorMsg(cf, current_config, "Database URL not configured",
                                    "Please add 'database.url' to config.json"), FALSE, w)
        ELSE IF name \notin PgBranches
        THEN Handled(UnknownTool(name), FALSE, w)
        ELSE PgRespond(PgDispatch(w, name, arguments, current_db_url.val, f))

(***************************************************************************)
(* mcp_server (Google services): list_tools and call_tool                  *)
(***************************************************************************)
GoogleTools ==
    <<"read_sheet", "write_sheet", "append_sheet", "get_sheet_info", "list_emails",
      "get_email_detail", "send_email", "search_emails", "list_calendar_events",
      "create_calendar_event", "update_calendar_event", "delete_calendar_event",
      "get_calendar_event">>

GoogleRequired(name) ==
    CASE name = "read_sheet" -> {"spreadsheetId", "range"}
      [] name \in {"write_sheet", "append_sheet"} -> {"spreadsheetId", "range", "values"}
      [] name = "get_sheet_info" -> {"spreadsheetId"}
      [] name = "get_email_detail" -> {"messageId"}
      [] name = "send_email" -> {"to", "subject", "body"}
      [] name = "search_emails" -> {"query"}
      [] name = "create_calendar_event" -> {"summary", "start", "end"}
      [] name \in {"update_calendar_event", "delete_calendar_event", "get_calendar_event"} -> {"eventId"}
      [] OTHER -> {}

\* arguments.get(key) or config.get("google", {}).get(key [, default])
ArgOrConfig(arguments, cfg, key, default) ==
    IF key \in DOMAIN arguments /\ arguments[key] \notin {None, ""}
    THEN [ok |-> TRUE, val |-> arguments[key], msg |-> ""]
    ELSE IF cfg.kind = "list"
    THEN [ok |-> FALSE, val |-> None, msg |-> "'list' object has no attribute 'get'"]
    ELSE [ok |-> TRUE, msg |-> "",
          val |-> IF "google" \in DOMAIN cfg.val /\ key \in DOMAIN cfg.val.google
                  THEN cfg.val.google[key] ELSE default]

\* arguments[k] for the keys ks, in order: the first KeyError, if any
KeyError(arguments, ks) ==
    IF \A i \in DOMAIN ks : ks[i] \in DOMAIN arguments THEN None
    ELSE LET i == CHOOSE i \in DOMAIN ks : ks[i] \notin DOMAIN arguments
                      /\ \A j \in 1..(i - 1) : ks[j] \in DOMAIN arguments
         IN  "'" \o ks[i] \o "'"

\* the if/elif chain of call_tool, up to the call of the backing function
\* the names the if/elif chain of call_tool tests; any other reaches its else
GoogleBranches ==
    {"read_sheet", "write_sheet", "append_sheet", "get_sheet_info", "list_emails",
     "get_email_detail", "send_email", "search_emails", "list_calendar_events",
     "create_calendar_event", "update_calendar_event", "delete_calendar_event",
     "get_calendar_event"}

GoogleDispatch(w, cfg, name, arguments, f) ==
    LET spreadsheet_id == ArgOrConfig(arguments, cfg, "spreadsheetId", None)
        calendar_id == ArgOrConfig(arguments, cfg, "calendarId", "primary")
        Keyed(first, ks, call) ==
            IF ~first.ok THEN Raise(first.msg, w)
            ELSE IF KeyError(arguments, ks) # None THEN Raise(KeyError(arguments, ks), w)
            ELSE call
        yes == [ok |-> TRUE, val |-> None, msg |-> ""]
    IN
    CASE name = "read_sheet" ->
            Keyed(spreadsheet_id, <<"range">>,
                  read_sheet_data(w, spreadsheet_id.val, arguments["range"], f))
      [] name = "write_sheet" ->
            Keyed(spreadsheet_id, <<"range", "values">>,
                  write_sheet_data(w, spreadsheet_id.val, arguments["range"], arguments["values"], f))
      [] name = "append_sheet" ->
            Keyed(spreadsheet_id, <<"range", "values">>,
                  append_sheet_data(w, spreadsheet_id.val, arguments["range"], arguments["values"], f))
      [] name = "get_sheet_info" ->
            Keyed(spreadsheet_id, <<>>, get_sheet_info(w, spreadsheet_id.val, f))
      [] name = "list_emails" ->
            list_emails(w, GetD(arguments, "maxResults", 10), GetD(arguments, "query", ""), f)
      [] name = "get_email_detail" ->
            Keyed(yes, <<"messageId">>, get_email_detail(w, arguments["messageId"], f))
      [] name = "send_email" ->
            Keyed(yes, <<"to", "subject", "body">>,
                  send_email(w, arguments["to"], arguments["subject"], arguments["body"],
                             GetD(arguments, "isHtml", FALSE), f))
      [] name = "search_emails" ->
            Keyed(yes, <<"query">>, search_emails(w, arguments["query"], f))
      [] name = "list_calendar_events" ->
            Keyed(calendar_id, <<>>,
                  list_events(w, calendar_id.val, GetD(arguments, "maxResults", 10),
                              Get(arguments, "timeMin"), f))
      [] name = "create_calendar_event" ->
            Keyed(calendar_id, <<"summary", "start", "end">>,
                  create_event(w, calendar_id.val,
                               [summary |-> arguments["summary"],
                                description |-> GetD(arguments, "description", ""),
                                start |-> arguments["start"], end |-> arguments["end"],
                                location |-> GetD(arguments, "location", ""),
                                attendees |-> GetD(arguments, "attendees", <<>>),
                                timeZone |-> GetD(arguments, "timeZone", "America/Los_Angeles")], f))
      [] name = "update_calendar_event" ->
            Keyed(calendar_id, <<"eventId">>,
                  update_event(w, calendar_id.val, arguments["eventId"],
                               Restrict(arguments, DOMAIN arguments \cap
                                   {"summary", "description", "start", "end", "location", "attendees"})
                               @@ [timeZone |-> GetD(arguments, "timeZone", "America/Los_Angeles")], f))
      [] name = "delete_calendar_event" ->
            Keyed(calendar_id, <<"eventId">>, delete_event(w, calendar_id.val, arguments["eventId"], f))
      [] name = "get_calendar_event" ->
            Keyed(calendar_id, <<"eventId">>, get_event(w, calendar_id.val, arguments["eventId"], f))

\* json.dumps(result, indent=2): the results hold only what the API's JSON held
GoogleRespond(o) ==
    IF o.kind = "raise" THEN Caught(o.msg, Entered(o.w), o.w) ELSE Handled(o.ret, FALSE, o.w)

google_call_tool(w, cfg, name, arguments, f) ==
    IF name \notin GoogleBranches
    THEN Handled(UnknownTool(name), FALSE, w)
    ELSE GoogleRespond(GoogleDispatch(w, cfg, name, arguments, f))

(***************************************************************************)
(* list_tools of the three servers                                         *)
(***************************************************************************)
\* the names list_tools advertises
Registry(srv) ==
    CASE srv = "google" -> Range(GoogleTools)
      [] srv = "mongodb" -> Range(MongoTools)
      [] srv = "postgres" -> Range(PgTools)

\* the 'required' list of the descriptor
Required(srv, name) ==
    CASE srv = "google" -> GoogleRequired(name)
      [] srv = "mongodb" -> MongoRequired(name)
      [] srv = "postgres" -> PgRequired(name)

\* the 'properties' of the descriptor's inputSchema
Properties(srv, name) ==
    CASE name = "read_sheet" -> {"spreadsheetId", "range"}
      [] name \in {"write_sheet", "append_sheet"} -> {"spreadsheetId", "range", "values"}
      [] name = "get_sheet_info" -> {"spreadsheetId"}
      [] name = "list_emails" -> {"maxResults", "query"}
      [] name = "get_email_detail" -> {"messageId"}
      [] name = "send_email" -> {"to", "subject", "body", "isHtml"}
      [] name = "search_emails" -> {"query"}
      [] name = "list_calendar_events" -> {"calendarId", "maxResults", "timeMin"}
      [] name = "create_calendar_event" ->
            {"calendarId", "summary", "description", "start", "end", "location",
             "attendees", "timeZone"}
      [] name = "update_calendar_event" ->
            {"calendarId", "eventId", "summary", "description", "start", "end",
             "location", "attendees"}
      [] name \in {"delete_calendar_event", "get_calendar_event"} -> {"calendarId", "eventId"}
      [] name = "find_documents" ->
            {"database_name", "collection_name", "query", "limit", "skip", "sort"}
      [] name = "count_documents" -> {"database_name", "collection_name", "query"}
      [] name \in {"update_document", "update_many_documents"} ->
            {"database_name", "collection_name", "filter_query", "update_data", "upsert"}
      [] name \in {"execute_query", "execute_write"} -> {"query", "params"}
      [] name = "run_custom_sql" -> {"sql", "params"}
      [] OTHER -> Required(srv, name)

\* the Tool sequences of the three list_tools, in the order of the source
Tools(srv) ==
    CASE srv = "google" -> GoogleTools
      [] srv = "mongodb" -> MongoTools
      [] srv = "postgres" -> PgTools

\* Tool(name=.., description=.., inputSchema={"type": "object", "properties": .., "required": ..});
\* the description is a string literal per tool, kept here as the tool's name
Descriptor(srv, name) ==
    [name |-> name, description |-> name,
     inputSchema |-> [type |-> "object", properties |-> Properties(srv, name),
                      required |-> Required(srv, name)]]

\* list_tools that advertises the tools only while config.json exists
list_tools_if_config(srv) ==
    IF configFile.kind = "absent" THEN <<>>
    ELSE [i \in DOMAIN Tools(srv) |-> Descriptor(srv, Tools(srv)[i])]

list_tools(srv) == [i \in DOMAIN Tools(srv) |-> Descriptor(srv, Tools(srv)[i])]

(***************************************************************************)
(* The invocations the model draws                                         *)
(***************************************************************************)
Omit1(a) == {Restrict(a, DOMAIN a \ {k}) : k \in DOMAIN a}
Null1(a) == {[a EXCEPT ![k] = None] : k \in DOMAIN a}

DbColl == [database_name |-> "d", collection_name |-> "c"]

QName == "{\"name\": \"a\"}"
QId == "{\"_id\": \"h1\"}"
QBadId == "{\"_id\": \"zz\"}"
UPlain == "{\"name\": \"b\"}"
USet == "{\"$set\": {\"name\": \"b\"}}"
DocA == "{\"name\": \"a\"}"
DocsAB == "[{\"name\": \"a\"}, {\"name\": \"b\"}]"
PipeAll == "[]"
PipeMatch == "[{\"$match\": {\"name\": \"a\"}}]"
SortName == "{\"name\": 1}"
NotJson == "oops"

FindFull == DbColl @@ [query |-> QName, limit |-> 1, skip |-> 0, sort |-> SortName]
UpdFull == DbColl @@ [filter_query |-> QName, update_data |-> UPlain, upsert |-> FALSE]

MongoArgs(name) ==
    CASE name = "list_databases" -> {<<>>}
      [] name = "list_collections" -> {[database_name |-> "d"], <<>>}
      [] name = "find_documents" ->
            {DbColl @@ o : o \in {<<>>, [query |-> "{}"], [query |-> QName], [query |-> QId],
                                  [query |-> QBadId], [query |-> ""], [query |-> NotJson],
                                  [skip |-> 1], [limit |-> 1], [sort |-> SortName],
                                  [query |-> QName, limit |-> 0, skip |-> 0]}}
            \cup {FindFull} \cup Omit1(DbColl)
      [] name = "count_documents" ->
            {DbColl @@ o : o \in {<<>>, [query |-> QName], [query |-> QId], [query |-> QBadId],
                                  [query |-> NotJson], [query |-> None]}}
            \cup Omit1(DbColl)
      [] name = "insert_document" ->
            {DbColl @@ [document |-> d] : d \in {DocA, NotJson, None}}
            \cup Omit1(DbColl @@ [document |-> DocA])
      [] name = "insert_many_documents" ->
            {DbColl @@ [documents |-> d] : d \in {DocsAB, "[]", None}}
            \cup Omit1(DbColl @@ [documents |-> DocsAB])
      [] name \in {"update_document", "update_many_documents"} ->
            {DbColl @@ [filter_query |-> q, update_data |-> UPlain] : q \in {QName, QId, QBadId}}
            \cup {DbColl @@ [filter_query |-> QName, update_data |-> USet],
                  DbColl @@ [filter_query |-> QId, update_data |-> UPlain, upsert |-> TRUE],
                  DbColl @@ [filter_query |-> QName, update_data |-> UPlain, upsert |-> TRUE],
                  UpdFull}
            \cup Omit1(DbColl @@ [filter_query |-> QName, update_data |-> UPlain])
      [] name \in {"delete_document", "delete_many_documents"} ->
            {DbColl @@ [filter_query |-> q] : q \in {"{}", QName, QId, QBadId, None}}
            \cup Omit1(DbColl @@ [filter_query |-> QName])
      [] name = "aggregate" ->
            {DbColl @@ [pipeline |-> q] : q \in {PipeAll, PipeMatch, NotJson, None}}
            \cup Omit1(DbColl @@ [pipeline |-> PipeAll])
      [] OTHER -> {<<>>, DbColl}

\* the invocations that are also made against a failing backend
MongoCore(name) ==
    CASE name = "find_documents" -> {FindFull, DbColl @@ [query |-> NotJson]}
      [] name = "count_documents" -> {DbColl @@ [query |-> QName]}
      [] name = "insert_document" -> {DbColl @@ [document |-> DocA]}
      [] name = "insert_many_documents" -> {DbColl @@ [documents |-> DocsAB]}
      [] name \in {"update_document", "update_many_documents"} ->
            {DbColl @@ [filter_query |-> QName, update_data |-> UPlain]}
      [] name \in {"delete_document", "delete_many_documents"} ->
            {DbColl @@ [filter_query |-> QName]}
      [] name = "aggregate" -> {DbColl @@ [pipeline |-> PipeAll]}
      [] name = "list_collections" -> {[database_name |-> "d"]}
      [] OTHER -> {<<>>}

UnknownNames == {"unknown_op", "drop_database"}

MongoFaults ==
    {NoFault, [fail |-> {"op"}, msg |-> ""]} \cup
    [fail : {{"connect"}, {"ping"}, {"op"}, {"close"}, {"op", "close"}}, msg : {"backend failure"}]

PgArgs(name) ==
    CASE name = "execute_query" ->
            {[query |-> q] : q \in {SqlSelect, SqlSelectParam, SqlInsert, SqlInsertReturning, SqlBad}}
            \cup {[query |-> SqlSelectParam, params |-> <<"1">>],
                  [query |-> SqlSelect, params |-> <<>>], <<>>}
      [] name = "execute_write" ->
            {[query |-> q] : q \in {SqlInsert, SqlDelete, SqlCreate, SqlDrop, SqlSelect, SqlBad}}
            \cup {[query |-> SqlInsert, params |-> <<>>], <<>>}
      [] name = "run_custom_sql" ->
            {[sql |-> q] : q \in {SqlSelect, SqlSelectLower, SqlInsert, SqlInsertReturning,
                                  SqlWithDelete, SqlBad, None}}
            \cup {[sql |-> SqlSelectParam, params |-> <<"1">>], <<>>}
      [] name = "list_tables" -> {<<>>}
      [] name \in {"describe_table", "get_table_count"} ->
            {[table_name |-> "t"], [table_name |-> "x"], [table_name |-> None], <<>>}
      [] OTHER -> {<<>>, [query |-> SqlSelect]}

PgCore(name) ==
    CASE name = "execute_query" -> {[query |-> SqlSelect]}
      [] name = "execute_write" -> {[query |-> SqlInsert]}
      [] name = "run_custom_sql" -> {[sql |-> SqlSelect], [sql |-> SqlInsert]}
      [] name \in {"describe_table", "get_table_count"} -> {[table_name |-> "t"]}
      [] OTHER -> {<<>>}

PgFaults ==
    {NoFault, [fail |-> {"op"}, msg |-> ""]} \cup
    [fail : {{"connect"}, {"op"}, {"commit"}, {"close"}, {"op", "close"}, {"op", "rollback"}},
     msg : {"backend failure"}]

SheetRange == "Sheet1!A1"
Values1 == <<(<<"v">>)>>
SheetFull == [spreadsheetId |-> "S1", range |-> SheetRange, values |-> Values1]
MailFull == [to |-> "a@x", subject |-> "hi", body |-> "text"]
EventFull == [summary |-> "s", start |-> TNaive, end |-> TNaive]

GoogleArgs(name) ==
    CASE name = "read_sheet" ->
            {[spreadsheetId |-> "S1", range |-> SheetRange], [range |-> SheetRange],
             [spreadsheetId |-> "S1"], [spreadsheetId |-> "S9", range |-> SheetRange], <<>>}
      [] name \in {"write_sheet", "append_sheet"} -> {SheetFull} \cup Omit1(SheetFull)
      [] name = "get_sheet_info" -> {[spreadsheetId |-> "S1"], [spreadsheetId |-> "S9"], <<>>}
      [] name = "list_emails" ->
            {<<>>, [maxResults |-> 10, query |-> ""], [maxResults |-> 1], [query |-> "nomatch"]}
      [] name = "get_email_detail" -> {[messageId |-> "m1"], [messageId |-> "m9"], <<>>}
      [] name = "send_email" ->
            {MailFull, MailFull @@ [isHtml |-> FALSE], MailFull @@ [isHtml |-> TRUE]}
            \cup Omit1(MailFull)
      [] name = "search_emails" -> {[query |-> ""], [query |-> "nomatch"], <<>>}
      [] name = "list_calendar_events" ->
            {<<>>, [calendarId |-> "primary"], [calendarId |-> "nocal"],
             [calendarId |-> "primary", maxResults |-> 10, timeMin |-> TNaive],
             [timeMin |-> TZulu], [timeMin |-> TBad]}
      [] name = "create_calendar_event" ->
            {EventFull, EventFull @@ [calendarId |-> "primary"],
             EventFull @@ [calendarId |-> "primary", description |-> "d", location |-> "l",
                           attendees |-> <<"b@x">>, timeZone |-> "America/Los_Angeles"]}
            \cup Omit1(EventFull)
      [] name = "update_calendar_event" ->
            {[eventId |-> "e1"], [eventId |-> "e1", summary |-> "s2"],
             [eventId |-> "e1", location |-> "l", summary |-> ""],
             [eventId |-> "e1", start |-> TLater],
             [calendarId |-> "primary", eventId |-> "e1", summary |-> "s2"],
             [eventId |-> "e9"], <<>>}
      [] name \in {"delete_calendar_event", "get_calendar_event"} ->
            {[eventId |-> "e1"], [calendarId |-> "primary", eventId |-> "e1"],
             [eventId |-> "e9"], <<>>}
      [] OTHER -> {<<>>, [spreadsheetId |-> "S1"]}

GoogleCore(name) ==
    CASE name = "read_sheet" -> {[spreadsheetId |-> "S1", range |-> SheetRange]}
      [] name \in {"write_sheet", "append_sheet"} -> {SheetFull}
      [] name = "get_sheet_info" -> {[spreadsheetId |-> "S1"]}
      [] name = "get_email_detail" -> {[messageId |-> "m1"]}
      [] name = "send_email" -> {MailFull}
      [] name = "search_emails" -> {[query |-> ""]}
      [] name = "create_calendar_event" -> {EventFull}
      [] name = "update_calendar_event" -> {[eventId |-> "e1", summary |-> "s2"]}
      [] name \in {"delete_calendar_event", "get_calendar_event"} -> {[eventId |-> "e1"]}
      [] OTHER -> {<<>>}

GoogleFaults ==
    {NoFault, [fail |-> {"op"}, msg |-> ""]} \cup
    [fail : {{"auth"}, {"op"}, {"op2"}}, msg : {"backend failure"}]

(***************************************************************************)
(* State machine                                                           *)
(***************************************************************************)
\* no request is in flight
NoCall == [op |-> "idle"]

\* list_tools has not been called in this process
NotListed == [called |-> FALSE, tools |-> <<>>]

World == [coll |-> coll, nextOid |-> nextOid, pg |-> pg, goog |-> goog, trace |-> <<>>]

\* module import: `config = load_config()` and, in the two database servers,
\* `config.get(<key>, {}).get(<entry>, '')`
Startup(srv, cf) ==
    CASE srv = "google" ->
            [up |-> TRUE,
             config |-> IF cf.kind \in {"absent", "invalid"}
                        THEN [kind |-> "dict", val |-> [google |-> <<>>]] ELSE cf]
      [] srv = "mongodb" ->
            [up |-> ConfigEntry(load_config(cf, "mongodb"), "mongodb", "uri").ok,
             config |-> load_config(cf, "mongodb")]
      [] srv = "postgres" ->
            [up |-> ConfigEntry(load_config(cf, "database"), "database", "url").ok,
             config |-> load_config(cf, "database")]

Init ==
    /\ server \in {"google", "mongodb", "postgres"}
    /\ configFile \in ConfigFiles
    /\ up = Startup(server, configFile).up
    /\ config = Startup(server, configFile).config
    /\ coll = <<>>
    /\ nextOid = 1
    /\ fresh = {}
    /\ pg = [exists |-> FALSE, rows |-> 0]
    /\ goog \in {g \in [token : {"absent", "stale", "expired", "valid"}, credfile : BOOLEAN,
                         sheet : {0}, sent : {0}, events : {<<>>}, created : {0}] :
                   /\ server # "google" => g.token = "valid"
                   /\ g.token \notin {"absent", "stale"} => g.credfile}
    /\ listed = NotListed
    /\ last = NoCall
    /\ agent = AgentOff
    /\ api = ApiOff

\* documents of coll2 that were not in coll1 (by identifier)
NewDocs(coll1, coll2) == {d \in Range(coll2) : \A e \in Range(coll1) : e._id # d._id}

\* a handler body with an await before the call of the backing function
AwaitsBacking(srv) == {"backing function"}

\* the await expressions in the body of `async def call_tool`: there is none,
\* and the backing functions are plain blocking calls, so the handler runs
\* from its first statement to its return in one step of the event loop
Awaits(srv) == {}

Observe(srv, name, arguments, h) ==
    [op |-> "call_tool", server |-> srv, name |-> name, arguments |-> arguments,
     awaited |-> Awaits(srv),
     result |-> h.result, raised |-> h.raised, caught |-> h.caught, exc |-> h.exc,
     escaped |-> h.escaped, trace |-> h.w.trace,
     pre |-> [coll |-> coll, pg |-> pg, goog |-> goog]]

\* One request is in flight at a time: the handler runs when the response to
\* the previous request has been written.
Idle == last.op = "idle"

CallToolMongo ==
    /\ server = "mongodb" /\ up /\ Idle
    /\ \E name \in Range(MongoTools) \cup UnknownNames :
       \E f \in MongoFaults :
       \E arguments \in IF f = NoFault THEN MongoArgs(name) ELSE MongoCore(name) :
       \E h \in {mongo_call_tool(World, configFile, name, arguments, f)} :
          /\ Len(h.w.coll) <= MaxDocs
          /\ h.w.nextOid <= MaxOids + 1
          /\ coll' = h.w.coll
          /\ nextOid' = h.w.nextOid
          /\ fresh' = IF name \in {"update_document", "update_many_documents",
                                   "delete_document", "delete_many_documents"}
                      THEN {}
                      ELSE IF name \in {"insert_document", "insert_many_documents"}
                              /\ h.result.success
                      THEN fresh \cup NewDocs(coll, h.w.coll)
                      ELSE fresh
          /\ last' = Observe("mongodb", name, arguments, h)
    /\ UNCHANGED <<agent, api, server, up, configFile, config, pg, goog, listed>>

CallToolPostgres ==
    /\ server = "postgres" /\ up /\ Idle
    /\ \E name \in Range(PgTools) \cup UnknownNames :
       \E f \in PgFaults :
       \E arguments \in IF f = NoFault THEN PgArgs(name) ELSE PgCore(name) :
       \E h \in {pg_call_tool(World, configFile, name, arguments, f)} :
          /\ h.w.pg.rows <= MaxRows
          /\ pg' = h.w.pg
          /\ last' = Observe("postgres", name, arguments, h)
    /\ UNCHANGED <<agent, api, server, up, configFile, config, coll, nextOid, fresh, goog, listed>>

CallToolGoogle ==
    /\ server = "google" /\ up /\ Idle
    /\ \E name \in Range(GoogleTools) \cup UnknownNames :
       \E f \in GoogleFaults :
       \E arguments \in IF f = NoFault THEN GoogleArgs(name) ELSE GoogleCore(name) :
       \E h \in {google_call_tool(World, config, name, arguments, f)} :
          /\ h.w.goog.sheet <= MaxSheet
          /\ h.w.goog.sent <= MaxSent
          /\ h.w.goog.created <= MaxEvents
          /\ goog' = h.w.goog
          /\ last' = Observe("google", name, arguments, h)
    /\ UNCHANGED <<agent, api, server, up, configFile, config, coll, nextOid, fresh, pg, listed>>

\* config.json is removed, or replaced by a JSON array or by a complete
\* configuration, while the server runs; mcp_server reads the file only when
\* the module is imported, so later edits concern the two database servers
EditConfig ==
    /\ Idle /\ server # "google"
    /\ \E cf \in {CfAbsent, CfList, CfFull} \ {configFile} : configFile' = cf
    /\ last' = NoCall
    /\ UNCHANGED <<agent, api, server, up, config, coll, nextOid, fresh, pg, goog, listed>>

\* One list_tools request: the handler returns the Tool list
ListTools ==
    /\ up /\ Idle
    /\ last' = [op |-> "list_tools", server |-> server, tools |-> list_tools(server)]
    /\ listed' = IF listed.called THEN listed
                 ELSE [called |-> TRUE, tools |-> list_tools(server)]
    /\ UNCHANGED <<agent, api, server, up, configFile, config, coll, nextOid, fresh, pg, goog>>

\* the response is written to the output stream
Respond ==
    /\ last.op \in {"call_tool", "list_tools"}
    /\ last' = NoCall
    /\ UNCHANGED <<agent, api, server, up, configFile, config, coll, nextOid, fresh, pg, goog, listed>>

Next == CallToolGoogle \/ CallToolMongo \/ CallToolPostgres \/ ListTools \/ EditConfig \/ Respond

Spec == Init /\ [][Next]_vars

(***************************************************************************)
(* What the properties below speak about                                   *)
(***************************************************************************)
\* an invocation has been handled and its response is about to be written
Called == last.op = "call_tool"

Registered == Called /\ last.name \in Registry(last.server)

\* the backing function the if/elif chain calls for a registered name
BackingOf(name) ==
    CASE name = "read_sheet" -> "read_sheet_data"
      [] name = "write_sheet" -> "write_sheet_data"
      [] name = "append_sheet" -> "append_sheet_data"
      [] name = "list_calendar_events" -> "list_events"
      [] name = "create_calendar_event" -> "create_event"
      [] name = "update_calendar_event" -> "update_event"
      [] name = "delete_calendar_event" -> "delete_event"
      [] name = "get_calendar_event" -> "get_event"
      [] OTHER -> name

\* the backing functions the dispatcher itself entered, in order
TopCalls(tr) == SelectSeq(tr, LAMBDA e : e.k = "call")

\* connection setup, authorisation and transaction control are not data requests
SetupSteps ==
    {"MongoClient", "ping", "close", "connect", "commit", "rollback",
     "refresh", "run_local_server", "save_token", "build"}

\* the data requests sent to the external service, in order (failed ones included)
DataRequests(tr) == SelectSeq(tr, LAMBDA e : e.k = "ext" /\ e.n \notin SetupSteps)

\* the connection string call_tool reads from the configuration file
ConnectionString(srv, cf) ==
    IF srv = "mongodb" THEN ConfigEntry(load_config(cf, "mongodb"), "mongodb", "uri")
    ELSE ConfigEntry(load_config(cf, "database"), "database", "url")

\* the Google server needs no connection string; the others need a non-empty one
ConnectionConfigured ==
    \/ server = "google"
    \/ ConnectionString(server, configFile).ok /\ ConnectionString(server, configFile).val # ""

NotConfiguredErrors ==
    {"MongoDB URI not configured", "Database URL not configured",
     "'list' object has no attribute 'get'"}

\* the arguments that the invocations above pass as null
NullableKeys ==
    {"query", "sql", "document", "documents", "filter_query", "pipeline", "table_name"}
Populated(arguments, k) ==
    k \in DOMAIN arguments /\ (k \in NullableKeys => arguments[k] # None)

FullyPopulated ==
    Registered /\ \A k \in Properties(last.server, last.name) : Populated(last.arguments, k)

OmitsRequired ==
    Registered /\ \E k \in Required(last.server, last.name) : k \notin DOMAIN last.arguments

\* every external step of the invocation succeeded
Healthy(tr) == \A i \in DOMAIN tr : tr[i].ok

(***************************************************************************)
(* C1 - unknown tool names                                                 *)
(***************************************************************************)
UnknownCall == Called /\ last.name \notin Registry(last.server)

\* C1 (as stated): in each dispatcher, for every name outside the registry,
\* every arguments map and every state of the configuration file, call_tool
\* returns {success: false, error: "Unknown tool: <name>"}.
C1_UnknownToolAnyConfig ==
    UnknownCall => last.result = [success |-> FALSE, error |-> "Unknown tool: " \o last.name]

\* C1 (amended): an unregistered name is answered with "Unknown tool: <name>"
\* by the Google dispatcher always, and by the MongoDB and PostgreSQL
\* dispatchers when config.json yields a non-empty connection string;
\* otherwise these two report the configuration failure instead, whatever the
\* name.
C1_UnknownTool ==
    UnknownCall =>
        /\ ConnectionConfigured =>
              last.result = [success |-> FALSE, error |-> "Unknown tool: " \o last.name]
        /\ ~ConnectionConfigured =>
              /\ last.result.success = FALSE
              /\ last.result.error \in NotConfiguredErrors

C1_Witness ==
    /\ UnknownCall /\ last.server = "postgres" /\ configFile = CfFull
    /\ last.result = [success |-> FALSE, error |-> "Unknown tool: unknown_op"]

(***************************************************************************)
(* C2 - call_tool never raises                                             *)
(***************************************************************************)
\* C2: no exception leaves call_tool; when argument extraction, the backing
\* function or the serialization raised, the handler returned the one text
\* block {success: false, error: str(exception)}, and the server is still up.
C2_NeverRaises ==
    Called =>
        /\ ~last.raised
        /\ up
        /\ last.caught => last.result = [success |-> FALSE, error |-> last.exc]

C2_Witness ==
    /\ Called /\ last.caught /\ last.name = "run_custom_sql"
    /\ last.result.error = "'NoneType' object has no attribute 'strip'"

(***************************************************************************)
(* C3 - backing functions and exceptions                                   *)
(***************************************************************************)
\* C3 (as stated): no backing function lets an exception escape, for every
\* input and every failure of the external client at connect, execute,
\* commit, rollback or close.
C3_NoEscape == Called => ~last.escaped

(***************************************************************************)
(* C4 - shape of the result                                                *)
(***************************************************************************)
\* C4 (as stated): for a registered tool called with all its parameters
\* populated, success is a boolean; when it is false the result has a
\* non-empty error string, and when it is true the result carries a payload.
C4_ResultShape ==
    FullyPopulated =>
        /\ last.result.success \in BOOLEAN
        /\ ~last.result.success =>
              "error" \in DOMAIN last.result /\ last.result.error # ""
        /\ last.result.success => DOMAIN last.result # {"success"}

(***************************************************************************)
(* C5 - omitted required parameters                                        *)
(***************************************************************************)
\* C5 (as stated): an invocation that omits a parameter of the tool's
\* 'required' list returns success: false with an error message, whatever the
\* configuration file contains.
C5_OmittedRequiredFails ==
    OmitsRequired => ~last.result.success /\ last.result.error # ""

(***************************************************************************)
(* C6 - one backing function per invocation                                *)
(***************************************************************************)
BackendUnchanged ==
    coll = last.pre.coll /\ pg = last.pre.pg /\ goog = last.pre.goog

\* C6 (as stated): an invocation invokes exactly the backing function
\* registered under the name when the name is registered and none when it is
\* unknown, and nothing changes unless a backing function ran.
C6_ExactlyTheRegistered ==
    Called =>
        /\ Registered => [i \in DOMAIN TopCalls(last.trace) |-> TopCalls(last.trace)[i].n]
                            = <<BackingOf(last.name)>>
        /\ ~Registered => TopCalls(last.trace) = <<>>
        /\ TopCalls(last.trace) = <<>> => BackendUnchanged

\* the dispatcher reaches the call of the backing function
ReachesBacking ==
    /\ Registered
    /\ ConnectionConfigured
    /\ last.server = "google" =>
          /\ config.kind = "dict"
          /\ Required("google", last.name) \subseteq DOMAIN last.arguments

\* C6 (amended): the dispatcher invokes at most one backing function, and only
\* the one registered under the requested name; it invokes none when the name
\* is unknown, exactly one when the name is registered, the connection string
\* is configured and (Google) the configuration is a mapping and the required
\* arguments are present; when it invokes none, no backend state changes.
C6_AtMostTheRegistered ==
    Called =>
        /\ Len(TopCalls(last.trace)) <= 1
        /\ \A i \in DOMAIN TopCalls(last.trace) :
              Registered /\ TopCalls(last.trace)[i].n = BackingOf(last.name)
        /\ ReachesBacking => Len(TopCalls(last.trace)) = 1
        /\ TopCalls(last.trace) = <<>> => BackendUnchanged

C6_Witness ==
    /\ Called /\ last.server = "mongodb" /\ last.name = "count_documents"
    /\ Len(TopCalls(last.trace)) = 1 /\ last.result.success
    /\ BackendUnchanged /\ coll # <<>>

(***************************************************************************)
(* C7 - data requests per invocation                                       *)
(***************************************************************************)
Requests == Len(DataRequests(last.trace))

Listed ==
    Len(Limit(MailMatching(GetD(last.arguments, "query", "")),
              GetD(last.arguments, "maxResults", 10)))

FilterOps ==
    {"find_documents", "count_documents", "update_document", "update_many_documents",
     "delete_document", "delete_many_documents"}
FilterKey(name) ==
    IF name \in {"find_documents", "count_documents"} THEN "query" ELSE "filter_query"

\* the number of documents the operation reports as selected by its filter
Selected(name, result) ==
    CASE name \in {"find_documents", "count_documents"} -> result.count
      [] name \in {"update_document", "update_many_documents"} -> result.matched_count
      [] OTHER -> result.deleted_count

\* C8 (as stated): each of the six operations that take a filter converts a
\* string _id to an ObjectId, so the filter {_id: <identifier string>} selects
\* the stored document with that identifier.
C8_StringIdSelects ==
    (/\ Called /\ last.server = "mongodb" /\ last.name \in FilterOps
     /\ FilterKey(last.name) \in DOMAIN last.arguments
     /\ last.arguments[FilterKey(last.name)] = QId
     /\ \E i \in DOMAIN last.pre.coll : PyStr(last.pre.coll[i]._id) = Str("h1")
     /\ last.result.success)
    => Selected(last.name, last.result) = 1

(***************************************************************************)
(* C9 - identifiers in results                                             *)
(***************************************************************************)
PlainString(x) == x.t = "str"

\* C9 (as stated): every document identifier of a successful result
\* (inserted_id, inserted_ids, upserted_id when a document was upserted, the
\* _id of every document of find_documents and aggregate) is a plain string.
C9_PlainStringIds ==
    Called /\ last.server = "mongodb" /\ last.result.success =>
        /\ "inserted_id" \in DOMAIN last.result => PlainString(last.result.inserted_id)
        /\ "inserted_ids" \in DOMAIN last.result =>
              \A i \in DOMAIN last.result.inserted_ids : PlainString(last.result.inserted_ids[i])
        /\ "upserted_id" \in DOMAIN last.result =>
              last.result.upserted_id = NoneVal \/ PlainString(last.result.upserted_id)
        /\ "documents" \in DOMAIN last.result =>
              \A i \in DOMAIN last.result.documents :
                 PlainString(last.result.documents[i]._id)

(***************************************************************************)
(* C10 - insert, then find                                                 *)
(***************************************************************************)
\* the filter q designates the stored document d: by its fields, or by the
\* identifier string the insert returned
Designates(q, d) ==
    \A k \in DOMAIN q :
        /\ k \in DOMAIN d
        /\ d[k] = q[k] \/ (k = "_id" /\ PyStr(d[k]) = q[k])

\* C10 (as stated): after a successful insert with no update or delete since,
\* find_documents on the collection with a filter that designates the inserted
\* document, skip 0 and a limit not smaller than the number of matches returns
\* success: true with that document among its documents.
C10_InsertThenFind ==
    (/\ Called /\ last.server = "mongodb" /\ last.name = "find_documents"
     /\ ConnectionConfigured /\ Healthy(last.trace)
     /\ {"database_name", "collection_name", "query"} \subseteq DOMAIN last.arguments
     /\ last.arguments.query \in {QName, QId}
     /\ GetD(last.arguments, "skip", 0) = 0)
    => \A d \in fresh :
          (/\ Designates(JsonLoads(last.arguments.query).val, d)
           /\ GetD(last.arguments, "limit", 100)
                 >= Cardinality({i \in DOMAIN coll :
                                    Designates(JsonLoads(last.arguments.query).val, coll[i])}))
          => /\ last.result.success
             /\ \E i \in DOMAIN last.result.documents :
                   last.result.documents[i] = ExtJsonDoc(d)

(***************************************************************************)
(* C11 - lookups that match nothing                                        *)
(***************************************************************************)
LookupOps ==
    {"find_documents", "count_documents", "aggregate", "execute_query", "list_tables",
     "describe_table", "get_table_count", "search_emails", "list_emails",
     "list_calendar_events", "read_sheet"}

\* the invocation reached its backing function with well-formed arguments, on
\* a backend that answered every request and (Google) could be authorised
LookupAnswered ==
    /\ ReachesBacking /\ last.name \in LookupOps
    /\ Healthy(last.trace)
    /\ last.server = "google" => last.pre.goog.credfile

\* the documents a pipeline of the invocations above keeps
PipelineKeeps(pipeline, d) == pipeline = PipeAll \/ (pipeline = PipeMatch /\ Designates([name |-> Str("a")], d))

\* the filter or target of the lookup matches no record of the store as it was
\* when the invocation arrived
ZeroMatch ==
    CASE last.name \in {"find_documents", "count_documents"} ->
            /\ {"database_name", "collection_name"} \subseteq DOMAIN last.arguments
            /\ GetD(last.arguments, "query", "{}") \in {"{}", QName, QId}
            /\ GetD(last.arguments, "sort", SortName) = SortName
            /\ \A i \in DOMAIN last.pre.coll :
                  ~Designates(JsonLoads(GetD(last.arguments, "query", "{}")).val, last.pre.coll[i])
      [] last.name = "aggregate" ->
            /\ {"database_name", "collection_name", "pipeline"} \subseteq DOMAIN last.arguments
            /\ last.arguments.pipeline \in {PipeAll, PipeMatch}
            /\ \A i \in DOMAIN last.pre.coll :
                  ~PipelineKeeps(last.arguments.pipeline, last.pre.coll[i])
      [] last.name = "execute_query" ->
            /\ last.pre.pg.exists /\ last.pre.pg.rows = 0
            /\ "query" \in DOMAIN last.arguments
            /\ \/ last.arguments.query = SqlSelect
               \/ last.arguments.query = SqlSelectParam /\ "params" \in DOMAIN last.arguments
      [] last.name = "list_tables" -> ~last.pre.pg.exists
      [] last.name = "describe_table" ->
            /\ "table_name" \in DOMAIN last.arguments /\ last.arguments.table_name # None
            /\ ~(last.pre.pg.exists /\ last.arguments.table_name = "t")
      [] last.name = "get_table_count" ->
            /\ "table_name" \in DOMAIN last.arguments /\ last.arguments.table_name = "t"
            /\ last.pre.pg.exists /\ last.pre.pg.rows = 0
      [] last.name \in {"search_emails", "list_emails"} ->
            GetD(last.arguments, "query", "") = "nomatch"
      [] last.name = "list_calendar_events" ->
            /\ GetD(last.arguments, "timeMin", TNaive) = TNaive
            /\ ArgOrConfig(last.arguments, config, "calendarId", "primary").val \in Calendars
            /\ \A i \in DOMAIN last.pre.goog.events :
                  last.pre.goog.events[i].cal
                     # ArgOrConfig(last.arguments, config, "calendarId", "primary").val
      [] last.name = "read_sheet" ->
            last.arguments.spreadsheetId = "S1" /\ last.pre.goog.sheet = 0
      [] OTHER -> FALSE

\* the result list of a successful lookup is empty (or its count is zero)
EmptyPayload ==
    CASE last.name \in {"find_documents", "aggregate"} ->
            last.result.documents = <<>> /\ last.result.count = 0
      [] last.name \in {"count_documents", "get_table_count"} -> last.result.count = 0
      [] last.name = "execute_query" -> last.result.rows = <<>> /\ last.result.count = 0
      [] last.name = "list_tables" -> last.result = [success |-> TRUE, tables |-> <<>>, count |-> 0]
      [] last.name = "describe_table" -> last.result.columns = <<>>
      [] last.name = "search_emails" -> last.result.messageIds = <<>> /\ last.result.total = 0
      [] last.name = "list_emails" -> last.result.messages = <<>> /\ last.result.total = 0
      [] last.name = "list_calendar_events" -> last.result.events = <<>> /\ last.result.total = 0
      [] last.name = "read_sheet" -> last.result.data = <<>>

\* C11 (as stated): every lookup operation whose filter or target matches zero
\* records returns success: true with an empty result list (or a zero count),
\* never success: false.
C11_EmptyLookupSucceeds ==
    LookupAnswered /\ ZeroMatch => last.result.success /\ EmptyPayload

(***************************************************************************)
(* C12 - count_documents without a query                                   *)
(***************************************************************************)
\* count_documents is invoked with database_name and collection_name only,
\* with the connection string configured and a backend that answers
CountWithoutQuery ==
    /\ Called /\ last.server = "mongodb" /\ last.name = "count_documents"
    /\ DOMAIN last.arguments = {"database_name", "collection_name"}
    /\ ConnectionConfigured /\ Healthy(last.trace)

\* C12 (as stated): against an empty collection the returned result is
\* {success: true, count: 0}.
C12_CountOnlyResult ==
    CountWithoutQuery /\ last.pre.coll = <<>> => last.result = [success |-> TRUE, count |-> 0]

\* C12 (amended): count_documents invoked with database_name and
\* collection_name only counts every document of the collection; the result is
\* {success: true, database, collection, count}, with count 0 against an empty
\* collection.
C12_CountsEveryDocument ==
    CountWithoutQuery =>
        last.result = [success |-> TRUE, database |-> last.arguments.database_name,
                       collection |-> last.arguments.collection_name,
                       count |-> Len(last.pre.coll)]

C12_Witness ==
    /\ CountWithoutQuery /\ Len(last.pre.coll) = 2
    /\ last.result.success /\ last.result.count = 2

(***************************************************************************)
(* C13 - missing configuration                                             *)
(***************************************************************************)
ConfigKey(srv) == IF srv = "mongodb" THEN "mongodb" ELSE "database"
ConfigEntryName(srv) == IF srv = "mongodb" THEN "uri" ELSE "url"

\* config.json is absent, cannot be read as JSON, or is a mapping without the
\* backend's key or without a (non-empty) connection entry under it
Unconfigured(srv, cf) ==
    /\ srv \in {"mongodb", "postgres"}
    /\ \/ cf.kind \in {"absent", "invalid"}
       \/ /\ cf.kind = "dict"
          /\ \/ ConfigKey(srv) \notin DOMAIN cf.val
             \/ ConfigEntryName(srv) \notin DOMAIN cf.val[ConfigKey(srv)]
             \/ cf.val[ConfigKey(srv)][ConfigEntryName(srv)] = ""

NotConfiguredError(srv) ==
    IF srv = "mongodb" THEN "MongoDB URI not configured" ELSE "Database URL not configured"

DeclaredDefaults(name) ==
    CASE name = "list_emails" -> [maxResults |-> 10, query |-> ""]
      [] name = "send_email" -> [isHtml |-> FALSE]
      [] name = "list_calendar_events" -> [calendarId |-> "primary", maxResults |-> 10]
      [] name = "create_calendar_event" ->
            [calendarId |-> "primary", timeZone |-> "America/Los_Angeles"]
      [] name \in {"update_calendar_event", "delete_calendar_event", "get_calendar_event"} ->
            [calendarId |-> "primary"]
      [] name = "find_documents" -> [limit |-> 100, skip |-> 0]
      [] name \in {"update_document", "update_many_documents"} -> [upsert |-> FALSE]
      [] OTHER -> <<>>

\* the invocation with every omitted optional parameter set to its declared default
WithDefaults(name, arguments) == arguments @@ DeclaredDefaults(name)

OmitsDefaulted(K) ==
    /\ Registered /\ Healthy(last.trace)
    /\ \E k \in (DOMAIN DeclaredDefaults(last.name)) \cap K : k \notin DOMAIN last.arguments

\* the store as it was when the invocation arrived
PreWorld ==
    [coll |-> last.pre.coll, nextOid |-> nextOid, pg |-> last.pre.pg,
     goog |-> last.pre.goog, trace |-> <<>>]

\* the same invocation with the defaults passed explicitly, on the same store
\* and configuration
Replayed(arguments) ==
    CASE last.server = "google" -> google_call_tool(PreWorld, config, last.name, arguments, NoFault)
      [] last.server = "mongodb" -> mongo_call_tool(PreWorld, configFile, last.name, arguments, NoFault)
      [] last.server = "postgres" -> pg_call_tool(PreWorld, configFile, last.name, arguments, NoFault)

SameOutcome(h) ==
    /\ last.result = h.result
    /\ coll = h.w.coll /\ pg = h.w.pg /\ goog = h.w.goog
    /\ last.trace = h.w.trace

DefaultedKeys ==
    {"maxResults", "query", "isHtml", "calendarId", "timeZone", "limit", "skip", "upsert"}

\* C14 (as stated): an invocation that omits an optional parameter with a
\* declared default behaves the same as the invocation that passes the default
\* explicitly, whatever the configuration file contains.
C14_OmittedIsDefault ==
    OmitsDefaulted(DefaultedKeys) => SameOutcome(Replayed(WithDefaults(last.name, last.arguments)))

(***************************************************************************)
(* C15 - list_tools                                                        *)
(***************************************************************************)
ListedTools == last.op = "list_tools"

\* C15: list_tools returns the same descriptor sequence (names, schemas and
\* order) as the first list_tools call of the process did, whatever call_tool
\* invocations and changes of config.json happened before or between the two
\* calls, and the sequence is the server's full registry.
C15_ListToolsDeterministic ==
    ListedTools =>
        /\ listed.called
        /\ last.tools = listed.tools
        /\ {last.tools[i].name : i \in DOMAIN last.tools} = Registry(last.server)
        /\ Len(last.tools) = Cardinality(Registry(last.server))

C15_Witness ==
    /\ ListedTools /\ last.server = "mongodb"
    /\ configFile = CfAbsent /\ coll # <<>>
    /\ Len(last.tools) = 11 /\ last.tools[1].name = "list_databases"

FreshWorld == [PreWorld EXCEPT !.nextOid = 1]

\* the same invocation, on the same configuration and store, as the first
\* invocation of a process
ReplayedFirst ==
    CASE last.server = "google" ->
            google_call_tool(FreshWorld, config, last.name, last.arguments, NoFault)
      [] last.server = "mongodb" ->
            mongo_call_tool(FreshWorld, configFile, last.name, last.arguments, NoFault)
      [] last.server = "postgres" ->
            pg_call_tool(FreshWorld, configFile, last.name, last.arguments, NoFault)

GeneratedId == Str("<generated>")
MaskIds(r) ==
    [k \in DOMAIN r |->
        IF k = "inserted_id" THEN GeneratedId
        ELSE IF k = "inserted_ids" THEN [i \in DOMAIN r[k] |-> GeneratedId]
        ELSE IF k = "upserted_id" /\ r[k] # NoneVal THEN GeneratedId
        ELSE r[k]]

CleanupSteps == {"close", "rollback"}

\* the external calls of the invocation that raised
FailedSteps == {i \in DOMAIN last.trace : last.trace[i].k = "ext" /\ ~last.trace[i].ok}

\* C18 (as stated): within one invocation the first external call that fails
\* is returned immediately as success: false, with no further attempt on the
\* backend (only the handler's close or rollback of the connection follows).
C18_FirstFailureReturned ==
    Called =>
        \A i \in FailedSteps :
            /\ ~last.result.success
            /\ \A j \in (i + 1)..Len(last.trace) :
                  last.trace[j].k = "ext" => last.trace[j].n \in CleanupSteps

(***************************************************************************)
(* C19 - the connection string is read at each invocation                  *)
(***************************************************************************)
\* the connection entry of a configuration mapping, '' when it has none
EntryOf(srv, c) ==
    IF c.kind = "dict" /\ ConfigKey(srv) \in DOMAIN c.val
       /\ ConfigEntryName(srv) \in DOMAIN c.val[ConfigKey(srv)]
    THEN c.val[ConfigKey(srv)][ConfigEntryName(srv)]
    ELSE ""

\* the connection strings the invocation opened connections with
ConnectedTo == {last.trace[i].to : i \in {j \in DOMAIN last.trace : "to" \in DOMAIN last.trace[j]}}

\* C19: on the MongoDB and PostgreSQL servers an invocation uses the
\* connection string that config.json holds when the invocation is handled,
\* never the one loaded at process start: it connects with no other string,
\* it connects with the file's string when the name is registered, and it
\* reports the missing configuration once the entry is removed.
C19_CurrentConnectionString ==
    Called /\ server \in {"mongodb", "postgres"} /\ configFile.kind # "list" =>
        /\ ConnectedTo \subseteq {EntryOf(server, configFile)}
        /\ EntryOf(server, configFile) # "" /\ Registered /\ ~last.escaped
              => ConnectedTo = {EntryOf(server, configFile)}
        /\ EntryOf(server, configFile) = ""
              => ConnectedTo = {} /\ last.result.error = NotConfiguredError(server)

C19_Witness ==
    /\ Called /\ server = "mongodb" /\ last.name = "list_databases"
    /\ EntryOf(server, config) = "" /\ EntryOf(server, configFile) = "mongodb://a"
    /\ ConnectedTo = {"mongodb://a"} /\ last.result.success

(***************************************************************************)
(* C20 - run_custom_sql and the type of the statement                      *)
(***************************************************************************)
\* a run_custom_sql invocation with a statement, all of whose steps succeeded
CustomSqlRan ==
    /\ ReachesBacking /\ last.server = "postgres" /\ last.name = "run_custom_sql"
    /\ Get(last.arguments, "sql") # None
    /\ Healthy(last.trace)

\* the names of the steps of the invocation
StepNames == {last.trace[i].n : i \in DOMAIN last.trace}

\* what the server does with the statement of the invocation
StatementEffect ==
    Execute(last.pre.pg, Get(last.arguments, "sql"), GetD(last.arguments, "params", <<>>))

\* C20: run_custom_sql sends a statement that starts with SELECT or WITH to
\* the read path (rows returned, nothing committed) and every other one to
\* the write path (committed, rows_affected returned), so that every
\* statement that returns rows has its rows returned and every statement
\* that modifies data and executes without error is committed.
C20_HandledByType ==
    CustomSqlRan =>
        /\ IF IsSelectOrWith(Get(last.arguments, "sql"))
           THEN "execute_query" \in StepNames /\ "commit" \notin StepNames
           ELSE "execute_write" \in StepNames
        /\ StatementEffect.ok /\ StatementEffect.hasRows
              => /\ last.result.success
                 /\ "rows" \in DOMAIN last.result
                 /\ Len(last.result.rows) = Len(StatementEffect.rows)
        /\ StatementEffect.ok /\ StatementEffect.db # last.pre.pg
              => pg = StatementEffect.db

(***************************************************************************)
(* C21 - update_data without operators is sent as $set                     *)
(***************************************************************************)
UpdateOps == {"update_document", "update_many_documents"}

\* an update invocation whose update_data is a plain field map
PlainUpdate ==
    /\ Called /\ last.server = "mongodb" /\ last.name \in UpdateOps
    /\ Get(last.arguments, "update_data") = UPlain

\* the fields and values the plain map lists: {"name": "b"}
ListedFields == [name |-> Str("b")]

\* document i of the collection before the invocation matched the filter
MatchedBefore(i) ==
    /\ Get(last.arguments, "filter_query") # None
    /\ ParseFilter(Get(last.arguments, "filter_query")).ok
    /\ Matches(last.pre.coll[i], ParseFilter(Get(last.arguments, "filter_query")).val)

\* C21: update_data without a key that starts with '$' is sent as
\* {$set: update_data} and update_data with an operator key is sent as it is
\* (the plain map has the outcome of the same map under $set); a plain map
\* changes only the listed fields of matched documents and never replaces a
\* document; with upsert omitted a filter that matches nothing leaves the
\* collection unchanged, and an upsert adds one document with the listed
\* fields.
C21_PlainMapIsSet ==
    PlainUpdate =>
        /\ Len(coll) >= Len(last.pre.coll)
        /\ \A i \in DOMAIN last.pre.coll :
              /\ \A k \in DOMAIN last.pre.coll[i] \ DOMAIN ListedFields :
                    k \in DOMAIN coll[i] /\ coll[i][k] = last.pre.coll[i][k]
              /\ coll[i] # last.pre.coll[i] =>
                    /\ MatchedBefore(i)
                    /\ \A k \in DOMAIN ListedFields : coll[i][k] = ListedFields[k]
        /\ "upsert" \notin DOMAIN last.arguments
           /\ (\A i \in DOMAIN last.pre.coll : ~MatchedBefore(i))
              => coll = last.pre.coll
        /\ Healthy(last.trace) /\ ~last.escaped /\ Len(coll) = Len(last.pre.coll)
              => SameOutcome(Replayed([k \in DOMAIN last.arguments |->
                                          IF k = "update_data" THEN USet ELSE last.arguments[k]]))
        /\ Len(coll) > Len(last.pre.coll)
              => /\ Get(last.arguments, "upsert") = TRUE
                 /\ Len(coll) = Len(last.pre.coll) + 1
                 /\ \A k \in DOMAIN ListedFields : coll[Len(coll)][k] = ListedFields[k]

C21_Witness ==
    /\ PlainUpdate /\ last.name = "update_many_documents" /\ last.result.success
    /\ Len(last.pre.coll) = 2 /\ last.result.modified_count = 1
    /\ \E i \in DOMAIN coll :
          /\ last.pre.coll[i].name = Str("a") /\ coll[i].name = Str("b")
          /\ coll[i]._id = last.pre.coll[i]._id

(***************************************************************************)
(* C22 - the names list_tools returns are the names call_tool routes       *)
(***************************************************************************)
\* the names list_tools of a server returns, in order
ListedNames(srv) == [i \in DOMAIN list_tools(srv) |-> list_tools(srv)[i].name]

\* every name a client may send to some server
CandidateNames ==
    Range(GoogleTools) \cup Range(MongoTools) \cup Range(PgTools) \cup UnknownNames

\* a configured server with a reachable backend
ProbeWorld ==
    [coll |-> <<>>, nextOid |-> 1, pg |-> [exists |-> FALSE, rows |-> 0],
     goog |-> [token |-> "valid", credfile |-> TRUE, sheet |-> 0, sent |-> 0,
               events |-> <<>>, created |-> 0],
     trace |-> <<>>]

\* call_tool of a configured server, given the name with its required arguments
Probe(srv, name) ==
    CASE srv = "google" ->
            {google_call_tool(ProbeWorld, CfFull, name, a, NoFault) : a \in GoogleCore(name)}
      [] srv = "mongodb" ->
            {mongo_call_tool(ProbeWorld, CfFull, name, a, NoFault) : a \in MongoCore(name)}
      [] srv = "postgres" ->
            {pg_call_tool(ProbeWorld, CfFull, name, a, NoFault) : a \in PgCore(name)}

\* the backing functions call_tool routes the name to
RoutedTo(srv, name) ==
    UNION {{TopCalls(h.w.trace)[i].n : i \in DOMAIN TopCalls(h.w.trace)} : h \in Probe(srv, name)}

\* the routing of every candidate name in every server
Routing ==
    [srv \in {"google", "mongodb", "postgres"} |->
        [name \in CandidateNames |-> RoutedTo(srv, name)]]

\* C22: in each server the names list_tools returns are pairwise distinct,
\* every one of them is routed by call_tool to exactly one backing function
\* and never answered as an unknown tool, and a name list_tools does not
\* return is routed to no backing function.
C22_ListedIsRouted ==
    /\ last.op = "list_tools" =>
          /\ \A i, j \in DOMAIN last.tools :
                i # j => last.tools[i].name # last.tools[j].name
          /\ \A i \in DOMAIN last.tools :
                Cardinality(Routing[server][last.tools[i].name]) = 1
          /\ \A name \in CandidateNames :
                (\A i \in DOMAIN last.tools : last.tools[i].name # name)
                    => Routing[server][name] = {}
    /\ Called =>
          IF \E i \in DOMAIN Tools(server) : list_tools(server)[i].name = last.name
          THEN /\ Len(TopCalls(last.trace)) <= 1
               /\ last.result # [success |-> FALSE, error |-> "Unknown tool: " \o last.name]
          ELSE TopCalls(last.trace) = <<>>

C22_Witness ==
    /\ last.op = "list_tools" /\ server = "postgres" /\ Len(last.tools) = 6
    /\ Routing[server]["run_custom_sql"] = {"run_custom_sql"}
    /\ Routing[server]["drop_database"] = {}
    /\ pg.exists

(***************************************************************************)
(* C23 - execute_write is all-or-nothing                                   *)
(***************************************************************************)
\* an execute_write invocation that reached the backing function
WriteRan ==
    /\ ReachesBacking /\ last.server = "postgres" /\ last.name = "execute_write"

\* what the server does with the statement of the invocation
WriteEffect ==
    Execute(last.pre.pg, Get(last.arguments, "query"), GetD(last.arguments, "params", <<>>))

\* the successful steps of the invocation with the given name
StepsDone(n) == SelectSeq(last.trace, LAMBDA e : e.n = n /\ e.ok)

\* C23: execute_write is all-or-nothing: when it returns success:true the
\* effects of the statement have been committed exactly once, and when it
\* returns success:false (a failure at connect, execute, commit or close) none
\* of them is visible afterwards.
C23_AllOrNothing ==
    WriteRan =>
        IF last.result.success
        THEN /\ Get(last.arguments, "query") # None
             /\ WriteEffect.ok /\ pg = WriteEffect.db
             /\ Len(StepsDone("commit")) = 1
        ELSE pg = last.pre.pg

Opens(i) == last.trace[i].n \in {"MongoClient", "connect"} /\ last.trace[i].ok

\* C25: every MongoDB client and PostgreSQL connection a backing function
\* opened is closed by the time the function returns, on the success path
\* and on every failure path (a failed ping after the client was created, a
\* failure of the operation after connecting).
C25_EveryConnectionClosed ==
    Called /\ last.server \in {"mongodb", "postgres"} =>
        \A i \in DOMAIN last.trace :
            Opens(i) => \E j \in DOMAIN last.trace : j > i /\ last.trace[j].n = "close"

(***************************************************************************)
(* C26 - update_calendar_event changes only the supplied fields            *)
(***************************************************************************)
UpdateEventCalled ==
    Called /\ last.server = "google" /\ last.name = "update_calendar_event"

\* the argument that governs a field of the stored event; the time zone of
\* start (end) is part of the start (end) field
ArgumentOf(k) == CASE k = "startTz" -> "start" [] k = "endTz" -> "end" [] OTHER -> k

\* the invocation supplies the argument with a non-empty value
Supplied(k) ==
    /\ k \in {"summary", "description", "start", "end", "location", "attendees"}
    /\ k \in DOMAIN last.arguments
    /\ last.arguments[k] \notin {None, "", <<>>}

\* the steps of the invocation that read, and that write, an event
GetSteps == {i \in DOMAIN last.trace : \E c \in Calendars : last.trace[i].n = "events.get@" \o c}
UpdateSteps == {i \in DOMAIN last.trace : \E c \in Calendars : last.trace[i].n = "events.update@" \o c}

\* C26: update_calendar_event changes only the fields of the event that the
\* invocation supplies with a non-empty value (summary, description, start,
\* end, location, attendees) and writes every other field back as it was
\* read; an invocation carrying only eventId leaves the event's content
\* unchanged; and when reading the existing event fails no update is sent.
C26_OnlySuppliedFields ==
    UpdateEventCalled =>
        /\ Len(goog.events) = Len(last.pre.goog.events)
        /\ \A i \in DOMAIN last.pre.goog.events : \A k \in DOMAIN last.pre.goog.events[i] :
              goog.events[i][k] # last.pre.goog.events[i][k] =>
                  /\ last.pre.goog.events[i].id = Get(last.arguments, "eventId")
                  /\ Supplied(ArgumentOf(k))
                  /\ k = ArgumentOf(k) => goog.events[i][k] = last.arguments[k]
        /\ last.result.success =>
              \A i \in DOMAIN goog.events : \A k \in DOMAIN goog.events[i] :
                  goog.events[i].id = last.arguments.eventId /\ Supplied(k)
                      => goog.events[i][k] = last.arguments[k]
        /\ DOMAIN last.arguments = {"eventId"} => goog.events = last.pre.goog.events
        /\ (\A i \in GetSteps : ~last.trace[i].ok) => UpdateSteps = {}
        /\ \A j \in UpdateSteps : \E i \in GetSteps : i < j /\ last.trace[i].ok

C26_Witness ==
    /\ UpdateEventCalled /\ last.result.success
    /\ last.arguments = [eventId |-> "e1", location |-> "l", summary |-> ""]
    /\ Len(goog.events) = 1 /\ last.pre.goog.events[1].summary = "s2"
    /\ goog.events[1] = [last.pre.goog.events[1] EXCEPT !.location = "l"]
    /\ goog.events[1] # last.pre.goog.events[1]
    /\ UpdateSteps # {}

(***************************************************************************)
(* C30 - get_credentials and tokens.json                                   *)
(***************************************************************************)
GoogleCalled == Called /\ last.server = "google"

\* the steps of the invocation with the given name (failed ones included)
StepsNamed(n) == {i \in DOMAIN last.trace : last.trace[i].n = n}

\* step i obtained credentials, by refresh or by the interactive flow
Obtained(i) == last.trace[i].n \in {"refresh", "run_local_server"} /\ last.trace[i].ok

\* the stored credentials can be used: they are valid or can be refreshed
Usable(g) == g.token \in {"valid", "expired"}

FileNotFound ==
    "credentials.json not found at <parent>/credentials.json. Please create it with your OAuth2 credentials."

\* C30: get_credentials writes tokens.json exactly when it obtained
\* credentials by refresh or by the interactive flow, and before it returns
\* them; it never rewrites tokens.json when the stored credentials are valid;
\* it refreshes only when they are expired and carry a refresh token; and
\* when neither usable stored credentials nor credentials.json exist it
\* raises FileNotFoundError and writes nothing.
C30_TokenWrittenWhenObtained ==
    GoogleCalled =>
        /\ \A j \in StepsNamed("save_token") : j > 1 /\ Obtained(j - 1)
        /\ \A i \in DOMAIN last.trace :
              Obtained(i) => i < Len(last.trace) /\ last.trace[i + 1].n = "save_token"
        /\ \A k \in StepsNamed("build") :
              last.pre.goog.token = "valid" \/ \E j \in StepsNamed("save_token") : j < k
        /\ last.pre.goog.token = "valid" =>
              /\ StepsNamed("save_token") = {} /\ StepsNamed("refresh") = {}
              /\ StepsNamed("run_local_server") = {}
              /\ goog.token = "valid"
        /\ StepsNamed("refresh") # {} => last.pre.goog.token = "expired"
        /\ last.pre.goog.token = "stale" /\ last.pre.goog.credfile /\ last.result.success
              => StepsNamed("run_local_server") # {}
        /\ ~Usable(last.pre.goog) /\ ~last.pre.goog.credfile =>
              /\ ~last.result.success
              /\ StepsNamed("build") = {} /\ StepsNamed("save_token") = {}
              /\ goog = last.pre.goog
              /\ (ReachesBacking /\ last.name \in {"list_emails", "search_emails"}
                    => last.result = [success |-> FALSE, error |-> FileNotFound])

C30_Witness ==
    /\ GoogleCalled /\ last.name = "list_emails" /\ last.result.success
    /\ last.pre.goog.token = "expired" /\ goog.token = "valid"
    /\ Cardinality(StepsNamed("refresh")) = 1 /\ Cardinality(StepsNamed("save_token")) = 1
    /\ Cardinality(StepsNamed("build")) > 1

(***************************************************************************)
(* agent.py: make_automatic_decisions.  The agent is a single coroutine;   *)
(* every tool call is awaited, so a step of the model is the code from one *)
(* await to the next.  The MCP server is its environment: the outcome of a *)
(* tool call is an input ("true"/"false": the success entry of the result, *)
(* "raised": call_tool raised).                                            *)
(* agent = [pc, actions, i, calls]: actions is the list the analysis made, *)
(* i the action being processed, calls the tool calls completed so far.    *)
(***************************************************************************)
MaxMail == 2     \* messages list_emails returns to the agent

ToolOutcomes == {"true", "false", "raised"}

MailTask == [subject |-> "Task: send report", body |-> "", from |-> "Ann <ann@x.com>"]
MailTodoNoSender == [subject |-> "todo list", body |-> "Please add this", from |-> ""]
MailMeeting == [subject |-> "Meeting", body |-> "meeting tomorrow at 10:00 am", from |-> "bob@x.com"]
MailMeetingNoDate == [subject |-> "Meeting", body |-> "", from |-> "bob@x.com"]
MailUrgentTask == [subject |-> "URGENT task", body |-> "", from |-> "urgent@x.com"]
MailPlain == [subject |-> "hello", body |-> "", from |-> "c@x.com"]

Mails == {MailTask, MailTodoNoSender, MailMeeting, MailMeetingNoDate, MailUrgentTask, MailPlain}

\* the words the analysis looks for that occur in text.lower()
WordsIn(text) ==
    CASE text = "Task: send report" -> {"task"}
      [] text = "todo list" -> {"todo"}
      [] text = "Please add this" -> {"please add"}
      [] text = "Meeting" -> {"meeting"}
      [] text = "meeting tomorrow at 10:00 am" -> {"meeting"}
      [] text = "URGENT task" -> {"urgent", "task"}
      [] text = "urgent@x.com" -> {"urgent"}
      [] OTHER -> {}

\* the if statements of the loop body, in order
ActionsFor(email) ==
    (IF "meeting" \in WordsIn(email.subject) \/ "schedule" \in WordsIn(email.subject)
        \/ "meeting" \in WordsIn(email.body)
     THEN <<[type |-> "calendar_check", email |-> email]>> ELSE <<>>)
    \o
    (IF "task" \in WordsIn(email.subject) \/ "todo" \in WordsIn(email.subject)
        \/ "please add" \in WordsIn(email.body)
     THEN <<[type |-> "sheet_add", email |-> email]>> ELSE <<>>)
    \o
    (IF "urgent" \in WordsIn(email.from) \/ "urgent" \in WordsIn(email.subject)
     THEN <<[type |-> "priority", email |-> email]>> ELSE <<>>)

RECURSIVE analyze_emails_for_actions(_)
analyze_emails_for_actions(messages) ==
    IF messages = <<>> THEN <<>>
    ELSE ActionsFor(Head(messages)) \o analyze_emails_for_actions(Tail(messages))

\* re.findall of the time pattern and of the date pattern in the body
extract_meeting_info(email) ==
    [hasTime |-> email.body = "meeting tomorrow at 10:00 am",
     hasDate |-> email.body = "meeting tomorrow at 10:00 am"]

\* the type the loop of make_automatic_decisions gives the action
TypeOf(action) ==
    IF action.type = "calendar_check"
       /\ (extract_meeting_info(action.email).hasTime \/ extract_meeting_info(action.email).hasDate)
    THEN "calendar_create" ELSE action.type

\* the tool process_decision calls for a decision of the type
ToolOf(type) ==
    CASE type = "calendar_check" -> "list_calendar_events"
      [] type = "sheet_add" -> "append_sheet"
      [] type = "calendar_create" -> "create_calendar_event"
      [] type = "email_response" -> "send_email"
      [] type = "priority" -> "append_sheet"

Response(email) == "I have added your request \"" \o email.subject \o "\" to my task list."

\* a completed tool call: for which action, with which outcome and, for
\* send_email, with which body
ToolCall(tool, i, outcome, body) == [tool |-> tool, action |-> i, ok |-> outcome, body |-> body]

AgentStart == [pc |-> "start", actions |-> <<>>, i |-> 0, calls |-> <<>>]

\* after action i: the next action, or step 4
AfterAction(a) ==
    IF a.i < Len(a.actions) THEN [a EXCEPT !.pc = "loop", !.i = @ + 1]
    ELSE [a EXCEPT !.pc = "status"]

\* Step 1 and 2: list_emails, then the analysis of its result
AgentListEmails ==
    /\ agent.pc = "start"
    /\ \E outcome \in ToolOutcomes :
       \E n \in 0..MaxMail :
       \E messages \in [1..n -> Mails] :
          /\ outcome # "true" => n = 0
          /\ agent' =
                [pc |-> CASE outcome = "raised" -> "crashed"
                          [] outcome = "false" -> "done"
                          [] analyze_emails_for_actions(messages) = <<>> -> "done"
                          [] OTHER -> "loop",
                 actions |-> IF outcome = "true" THEN analyze_emails_for_actions(messages) ELSE <<>>,
                 i |-> IF outcome = "true" /\ analyze_emails_for_actions(messages) # <<>> THEN 1 ELSE 0,
                 calls |-> <<ToolCall("list_emails", 0, outcome, "")>>]
    /\ UNCHANGED <<mcpVars, api>>

\* Step 3, one action: process_decision(action), whose except clause keeps
\* an exception of the tool call inside it
AgentProcess ==
    /\ agent.pc = "loop"
    /\ \E outcome \in ToolOutcomes :
       \E call \in {ToolCall(ToolOf(TypeOf(agent.actions[agent.i])), agent.i, outcome, "")} :
          agent' =
             IF TypeOf(agent.actions[agent.i]) = "sheet_add" /\ agent.actions[agent.i].email.from # ""
             THEN [agent EXCEPT !.pc = "reply", !.calls = Append(@, call)]
             ELSE AfterAction([agent EXCEPT !.calls = Append(@, call)])
    /\ UNCHANGED <<mcpVars, api>>

\* Step 3, the reply to the sender of a sheet_add email:
\* process_decision(response_action)
AgentReply ==
    /\ agent.pc = "reply"
    /\ \E outcome \in ToolOutcomes :
          agent' = AfterAction([agent EXCEPT !.calls =
                        Append(@, ToolCall("send_email", agent.i, outcome,
                                           Response(agent.actions[agent.i].email)))])
    /\ UNCHANGED <<mcpVars, api>>

\* Step 4: list_calendar_events, outside any try
AgentCalendarStatus ==
    /\ agent.pc = "status"
    /\ \E outcome \in ToolOutcomes :
          agent' = [agent EXCEPT !.pc = IF outcome = "raised" THEN "crashed" ELSE "done",
                                 !.calls = Append(@, ToolCall("list_calendar_events", 0, outcome, ""))]
    /\ UNCHANGED <<mcpVars, api>>

\* the servers at rest while the agent runs
McpAtRest ==
    /\ server = "google" /\ up = TRUE /\ configFile = CfFull /\ config = CfFull
    /\ coll = <<>> /\ nextOid = 1 /\ fresh = {} /\ pg = [exists |-> FALSE, rows |-> 0]
    /\ goog = [token |-> "valid", credfile |-> TRUE, sheet |-> 0, sent |-> 0,
               events |-> <<>>, created |-> 0]
    /\ listed = NotListed /\ last = NoCall

InitAgent == McpAtRest /\ agent = AgentStart /\ api = ApiOff

NextAgent == AgentListEmails \/ AgentProcess \/ AgentReply \/ AgentCalendarStatus

SpecAgent == InitAgent /\ [][NextAgent]_vars

(***************************************************************************)
(* C27 - the agent's reply to a task email                                 *)
(***************************************************************************)
\* call j of the run is the reply to the sender of a sheet_add email
IsReply(j) == agent.calls[j].tool = "send_email"

\* C27: for every email classified as sheet_add that has a sender, the
\* append_sheet call for that email completes before the send_email reply is
\* issued, and the reply saying that the request was added to the task list
\* is sent only when that append_sheet call returned success; when the
\* initial list_emails call fails the agent issues no further tool call.
C27_ReplyOnlyAfterAppended ==
    agent.pc # "off" =>
        /\ \A j \in DOMAIN agent.calls :
              IsReply(j) =>
                 /\ j > 1
                 /\ agent.calls[j - 1].tool = "append_sheet"
                 /\ agent.calls[j - 1].action = agent.calls[j].action
                 /\ agent.calls[j - 1].ok = "true"
        /\ agent.calls # <<>> /\ agent.calls[1].ok # "true" => Len(agent.calls) = 1

(***************************************************************************)
(* api_server.py: the inference API.  The endpoints are plain def          *)
(* functions, which FastAPI runs on the worker threads of its thread pool, *)
(* so two requests run load_model concurrently; the model steps a request  *)
(* from one access of MODELS_CACHE to the next.                            *)
(* api = [cache, files, log, served, threads]: cache[m] is 0 when m is not *)
(* a key of MODELS_CACHE and otherwise the number in log of the load whose *)
(* result is the entry; files are the models whose path exists; log has    *)
(* one record per load that got past the path check.                       *)
(***************************************************************************)
MaxRequests == 3     \* requests the server is sent

Workers == {1, 2}

MODEL_CONFIGS == {"hr", "finance", "sales", "healthcare", "marketing"}

\* the names a request to /api/infer/{model_name} carries
ModelNames == MODEL_CONFIGS \union {"legal"}

Endpoint(model) == "/api/" \o model

GenericEndpoint == "/api/infer/{model_name}"

Endpoints == {Endpoint(m) : m \in MODEL_CONFIGS} \union {GenericEndpoint}

\* what the endpoint's `except Exception` makes of the exception raised
\* in generate_response: HTTPException is an Exception, so its status code
\* is replaced
EndpointExcept(status_code) == 500

WorkerIdle ==
    [pc |-> "idle", endpoint |-> "", model_name |-> "", entry |-> 0,
     failure |-> "none", status |-> 0]

\* the response of the request worker t handles
ApiRespond(t, failure, status) ==
    [api EXCEPT !.threads[t].pc = "responded",
                !.threads[t].failure = failure,
                !.threads[t].status = status]

\* a request arrives and is given to a free worker; generic_inference
\* answers an unconfigured name before its try block
ApiRequest(t) ==
    /\ api.pc = "on"
    /\ api.threads[t].pc \in {"idle", "responded"}
    /\ api.served < MaxRequests
    /\ \E endpoint \in Endpoints :
       \E model_name \in IF endpoint = GenericEndpoint THEN ModelNames
                         ELSE {m \in MODEL_CONFIGS : Endpoint(m) = endpoint} :
          api' = [api EXCEPT
                    !.served = @ + 1,
                    !.threads[t] =
                       IF endpoint = GenericEndpoint /\ model_name \notin MODEL_CONFIGS
                       THEN [pc |-> "responded", endpoint |-> endpoint, model_name |-> model_name,
                             entry |-> 0, failure |-> "not configured", status |-> 404]
                       ELSE [pc |-> "load_model", endpoint |-> endpoint, model_name |-> model_name,
                             entry |-> 0, failure |-> "none", status |-> 0]]
    /\ UNCHANGED <<mcpVars, agent>>

\* load_model up to the path check: the cached entry, or HTTPException 404,
\* or on to from_pretrained
ApiLoadModel(t) ==
    /\ api.pc = "on"
    /\ api.threads[t].pc = "load_model"
    /\ \E m \in {api.threads[t].model_name} :
          api' = CASE api.cache[m] # 0 ->
                        [api EXCEPT !.threads[t].pc = "generate",
                                    !.threads[t].entry = api.cache[m]]
                   [] api.cache[m] = 0 /\ m \notin MODEL_CONFIGS ->
                        ApiRespond(t, "not configured", EndpointExcept(404))
                   [] api.cache[m] = 0 /\ m \in MODEL_CONFIGS /\ m \notin api.files ->
                        ApiRespond(t, "files missing", EndpointExcept(404))
                   [] OTHER ->
                        [api EXCEPT !.threads[t].pc = "loading"]
    /\ UNCHANGED <<mcpVars, agent>>

\* the rest of load_model: from_pretrained and model.eval() raise, or the
\* entry is stored under the name and returned
ApiLoadStore(t) ==
    /\ api.pc = "on"
    /\ api.threads[t].pc = "loading"
    /\ \E ok \in BOOLEAN :
       \E m \in {api.threads[t].model_name} :
          api' = IF ok
                 THEN [api EXCEPT !.log = Append(@, [model |-> m, ok |-> TRUE]),
                                  !.cache[m] = Len(api.log) + 1,
                                  !.threads[t].pc = "generate",
                                  !.threads[t].entry = Len(api.log) + 1]
                 ELSE [ApiRespond(t, "load", EndpointExcept(500)) EXCEPT
                                  !.log = Append(@, [model |-> m, ok |-> FALSE])]
    /\ UNCHANGED <<mcpVars, agent>>

\* generate_response after load_model, and the endpoint's return
ApiGenerate(t) ==
    /\ api.pc = "on"
    /\ api.threads[t].pc = "generate"
    /\ \E ok \in BOOLEAN :
          api' = IF ok THEN ApiRespond(t, "none", 200)
                 ELSE ApiRespond(t, "generate", EndpointExcept(500))
    /\ UNCHANGED <<mcpVars, agent>>

InitApi ==
    /\ McpAtRest
    /\ agent = AgentOff
    /\ \E files \in SUBSET MODEL_CONFIGS :
          api = [pc |-> "on", cache |-> [m \in MODEL_CONFIGS |-> 0], files |-> files,
                 log |-> <<>>, served |-> 0, threads |-> [t \in Workers |-> WorkerIdle]]

NextApi ==
    \E t \in Workers : ApiRequest(t) \/ ApiLoadModel(t) \/ ApiLoadStore(t) \/ ApiGenerate(t)

SpecApi == InitApi /\ [][NextApi]_vars

(***************************************************************************)
(* C28 - MODELS_CACHE holds each model's first successful load             *)
(***************************************************************************)
\* the loads of model m in the log that succeeded
LoadsOf(m) == {i \in DOMAIN api.log : api.log[i].model = m /\ api.log[i].ok}

\* workers inside load_model past the cache check, for model m
Loading(m) == {t \in Workers : api.threads[t].pc = "loading" /\ api.threads[t].model_name = m}

\* C28: load_model loads each configured model at most once per process:
\* after a successful load every later request uses the cached entry, two
\* concurrent requests for the same uncached model do not both load it, a
\* failed load leaves MODELS_CACHE unchanged, and cache entries are never
\* removed or replaced.
C28_LoadedAtMostOnce ==
    api.pc = "on" =>
        \A m \in MODEL_CONFIGS :
           /\ Cardinality(LoadsOf(m)) <= 1
           /\ Cardinality(Loading(m)) <= 1
           /\ api.cache[m] = (IF LoadsOf(m) = {} THEN 0
                              ELSE CHOOSE i \in LoadsOf(m) : \A j \in LoadsOf(m) : i <= j)
           /\ \A t \in Workers :
                 api.threads[t].model_name = m /\ api.threads[t].entry # 0
                    => api.threads[t].entry = api.cache[m]

(***************************************************************************)
(* C29 - status codes of the inference endpoints                           *)
(***************************************************************************)
ApiResponded(t) == api.pc = "on" /\ api.threads[t].pc = "responded"

\* C29: a request for a model name that is not configured, or for a
\* configured model whose files are missing on disk, is answered with 404 on
\* every inference endpoint; only other failures are answered with 500.
C29_NotFoundIs404 ==
    \A t \in Workers :
       ApiResponded(t) =>
          /\ api.threads[t].model_name \notin MODEL_CONFIGS => api.threads[t].status = 404
          /\ (api.threads[t].model_name \in MODEL_CONFIGS \ api.files) => api.threads[t].status = 404
          /\ api.threads[t].status = 500 => api.threads[t].failure \in {"load", "generate"}

====
